---- MODULE Spec2Model ----
(***************************************************************************)
(* Proxy Manager browser extension: the background service worker          *)
(* (src/background/service-worker.js), the storage layer and the proxy     *)
(* manager (src/unnamed/part_001, i.e. scripts/storage.js and              *)
(* scripts/proxy-manager.js), the retry helper (src/scripts/utils.js) and  *)
(* the options page's direct use of importData (src/options/options.js).   *)
(*                                                                         *)
(* Every message handler is an async function.  It runs synchronously up   *)
(* to its next awaited chrome.* call; the call's effect is applied, in     *)
(* issue order, when the call is made, and the handler's continuation is   *)
(* a later, separate step.  Nothing in the code queues or locks handlers,  *)
(* so the continuations of different handlers interleave freely.           *)
(***************************************************************************)
EXTENDS Integers, Sequences, FiniteSets, TLC

(* ------------------------------ bounds --------------------------------- *)
MaxCmds == 2        \* commands (messages, imports) started in one behaviour
MaxInFlight == 2    \* commands in flight at the same time
MaxFaults == 1      \* chrome.storage and chrome.action calls that reject in one behaviour
MaxProxyFaults == 3 \* chrome.proxy calls that reject in one behaviour
MaxIds == 2         \* ids crypto.randomUUID() hands out in one behaviour
MaxFairCmds == 1    \* commands started in one behaviour of SpecFair
MaxCacheCmds == 3   \* commands started in one behaviour of SpecCache

(* ------------------------- program constants --------------------------- *)
MAX_PROXY_NAME_LENGTH == 100
PORT_MIN == 1
PORT_MAX == 65535
MAX_PAC_SCRIPT_SIZE == 1048576
MAX_RETRY_ATTEMPTS == 3
RETRY_DELAY == 1000
MAX_HOST_LENGTH == 255
MAX_BYPASS_ENTRIES == 100
DEFAULT_PORT == 8080

NULL == "null"

PROXY_TYPES == {"http", "https", "socks4", "socks5", "pac", "auto_detect", "direct"}

DEFAULT_BYPASS_LIST == << <<"localhost">>, <<"127.0.0.1">>, <<"<", "local", ">">> >>

BADGE_TEXT == [ACTIVE |-> "ON", INACTIVE |-> "", ERROR |-> "!"]
BADGE_COLORS == [ACTIVE |-> "#4CAF50", INACTIVE |-> "#9E9E9E", ERROR |-> "#F44336"]

(* ------------------------------ strings -------------------------------- *)
(* A string is a sequence of pieces; a piece is one character or one       *)
(* indivisible word.  " " is the only whitespace used.                     *)

\* String.prototype.trim
Trim(s) ==
    LET RECURSIVE TrimLeft(_)
        TrimLeft(u) == IF u # <<>> /\ Head(u) = " " THEN TrimLeft(Tail(u)) ELSE u
        RECURSIVE TrimRight(_)
        TrimRight(u) ==
            IF u # <<>> /\ u[Len(u)] = " " THEN TrimRight(SubSeq(u, 1, Len(u) - 1)) ELSE u
    IN  TrimRight(TrimLeft(s))

Includes(s, piece) == \E i \in 1..Len(s) : s[i] = piece

Count(s, piece) == Cardinality({i \in 1..Len(s) : s[i] = piece})

Letters == {"a", "b", "h", "x"}
Digits == {"0", "1", "2", "9"}

\* /^[a-zA-Z0-9]([a-zA-Z0-9-]{0,61}[a-zA-Z0-9])?$/
HostnamePattern(s) ==
    /\ Len(s) >= 1 /\ Len(s) <= 63
    /\ s[1] \in Letters \cup Digits /\ s[Len(s)] \in Letters \cup Digits
    /\ \A i \in 1..Len(s) : s[i] \in Letters \cup Digits \cup {"-"}

\* String.prototype.split(sep): the pieces of s between the separators
RECURSIVE Split(_, _)
Split(s, sep) ==
    IF ~Includes(s, sep) THEN <<s>>
    ELSE LET i == CHOOSE k \in 1..Len(s) : s[k] = sep /\ \A j \in 1..(k - 1) : s[j] # sep
         IN  <<SubSeq(s, 1, i - 1)>> \o Split(SubSeq(s, i + 1, Len(s)), sep)

\* a variant that joins with a blank only
RECURSIVE JoinBlank(_)
JoinBlank(list) ==
    IF list = <<>> THEN <<>>
    ELSE IF Len(list) = 1 THEN list[1]
    ELSE list[1] \o <<" ">> \o JoinBlank(Tail(list))

\* Array.prototype.join(', ')
RECURSIVE Join(_)
Join(list) ==
    IF list = <<>> THEN <<>>
    ELSE IF Len(list) = 1 THEN list[1]
    ELSE list[1] \o <<",", " ">> \o Join(Tail(list))

\* /^([a-zA-Z0-9]([a-zA-Z0-9-]{0,61}[a-zA-Z0-9])?\.)+[a-zA-Z]{2,}$/
DomainPattern(s) ==
    LET parts == Split(s, ".") IN
    /\ Len(parts) >= 2
    /\ \A i \in 1..(Len(parts) - 1) : HostnamePattern(parts[i])
    /\ LET tld == parts[Len(parts)] IN
        Len(tld) >= 2 /\ \A i \in 1..Len(tld) : tld[i] \in Letters

\* /^(\d{1,3}\.){3}\d{1,3}$/
IpPattern(s) ==
    LET parts == Split(s, ".") IN
    /\ Len(parts) = 4
    /\ \A i \in 1..4 : Len(parts[i]) \in 1..3 /\ \A j \in 1..Len(parts[i]) : parts[i][j] \in Digits

\* parseInt(part, 10) of a string of digits
RECURSIVE ParseDigits(_)
ParseDigits(s) ==
    LET DigitValue(d) == CASE d = "0" -> 0 [] d = "1" -> 1 [] d = "2" -> 2 [] d = "9" -> 9
    IN  IF s = <<>> THEN 0 ELSE 10 * ParseDigits(SubSeq(s, 1, Len(s) - 1)) + DigitValue(s[Len(s)])

(* --------------------- scripts/proxy-manager.js ------------------------ *)
(* A configuration is a record id, name, type, host, port, bypassList,     *)
(* pacScript, lastUsed; name, host, pacScript and the bypass entries are   *)
(* strings, port is an integer, id is an integer or NULL.                  *)

\* sanitizeInput: trim, cut to maxLength, drop every "<" and ">"
sanitizeInput(input, maxLength) ==
    LET t == Trim(input)
        cut == SubSeq(t, 1, IF Len(t) < maxLength THEN Len(t) ELSE maxLength)
    IN  SelectSeq(cut, LAMBDA p : p \notin {"<", ">"})

\* createProxyConfig(data) with the id crypto.randomUUID() returned
createProxyConfig(data, uuid) ==
    LET name == sanitizeInput(IF data.name = <<>> THEN <<"Untitled Proxy">> ELSE data.name,
                              MAX_PROXY_NAME_LENGTH)
        host == sanitizeInput(data.host, MAX_HOST_LENGTH)
    IN  [id |-> uuid,
         name |-> IF Trim(name) = <<>> THEN <<"Untitled Proxy">> ELSE Trim(name),
         type |-> IF data.type = "" THEN "http" ELSE data.type,
         host |-> Trim(host),
         port |-> IF data.port = 0 THEN DEFAULT_PORT ELSE data.port,
         bypassList |-> SelectSeq([i \in 1..Len(data.bypassList) |->
                                      Trim(sanitizeInput(data.bypassList[i], MAX_HOST_LENGTH))],
                                  LAMBDA d : d # <<>>),
         pacScript |-> data.pacScript,
         lastUsed |-> NULL]

\* /function\s+FindProxyForURL\s*\(/
FunctionPattern(s) ==
    \E i \in 1..Len(s) : \E j \in (i + 2)..Len(s) : \E k \in (j + 1)..Len(s) :
        /\ s[i] = "function" /\ s[j] = "FindProxyForURL" /\ s[k] = "("
        /\ \A m \in (i + 1)..(j - 1) : s[m] = " "
        /\ \A m \in (j + 1)..(k - 1) : s[m] = " "

\* String.prototype.length: the number of characters of a string, piece by piece;
\* "/*...*/" is a comment that fills a PAC script of 28 characters up to the limit
RECURSIVE StrLen(_)
StrLen(s) ==
    LET PieceLen(p) ==
            CASE p = "function" -> 8
              [] p = "FindProxyForURL" -> 15
              [] p = "<script>" -> 8
              [] p = "</script>" -> 9
              [] p = "Untitled Proxy" -> 14
              [] p = "localhost" -> 9
              [] p = "127.0.0.1" -> 9
              [] p = "local" -> 5
              [] p = "/*...*/" -> MAX_PAC_SCRIPT_SIZE - 28
              [] OTHER -> 1
    IN  IF s = <<>> THEN 0 ELSE PieceLen(Head(s)) + StrLen(Tail(s))

Verdict(ok, why) == [valid |-> ok, error |-> why]

\* a variant that does not count the braces
ValidatePacUnbalanced(config) ==
    LET script == Trim(config.pacScript) IN
    IF script = <<>> THEN Verdict(FALSE, "PAC script is required for PAC type")
    ELSE IF StrLen(script) > MAX_PAC_SCRIPT_SIZE
        THEN Verdict(FALSE, "PAC script exceeds maximum size")
    ELSE IF ~Includes(script, "FindProxyForURL")
        THEN Verdict(FALSE, "PAC script must contain FindProxyForURL function")
    ELSE IF ~FunctionPattern(script)
        THEN Verdict(FALSE, "PAC script must have function FindProxyForURL(url, host)")
    ELSE IF Includes(script, "<script>") \/ Includes(script, "</script>")
        THEN Verdict(FALSE, "PAC script contains invalid HTML tags")
    ELSE Verdict(TRUE, NULL)

\* the checks validateProxyConfig makes on a PAC script
ValidatePac(config) ==
    LET script == Trim(config.pacScript) IN
    IF script = <<>> THEN Verdict(FALSE, "PAC script is required for PAC type")
    ELSE IF StrLen(script) > MAX_PAC_SCRIPT_SIZE
        THEN Verdict(FALSE, "PAC script exceeds maximum size")
    ELSE IF ~Includes(script, "FindProxyForURL")
        THEN Verdict(FALSE, "PAC script must contain FindProxyForURL function")
    ELSE IF ~FunctionPattern(script)
        THEN Verdict(FALSE, "PAC script must have function FindProxyForURL(url, host)")
    ELSE IF Count(script, "{") # Count(script, "}")
        THEN Verdict(FALSE, "PAC script has unmatched braces")
    ELSE IF Includes(script, "<script>") \/ Includes(script, "</script>")
        THEN Verdict(FALSE, "PAC script contains invalid HTML tags")
    ELSE Verdict(TRUE, NULL)

\* a variant whose port check has no lower bound
ValidateServerAnyPort(config) ==
    LET host == Trim(config.host)
        isValidIP == IpPattern(host)
    IN
    IF host = <<>> THEN Verdict(FALSE, "Proxy host is required")
    ELSE IF StrLen(host) > MAX_HOST_LENGTH
        THEN Verdict(FALSE, "Host name is too long (max 255 characters)")
    ELSE IF isValidIP /\ \E i \in 1..4 : ParseDigits(Split(host, ".")[i]) > 255
        THEN Verdict(FALSE, "Invalid IP address format")
    ELSE IF ~isValidIP /\ ~DomainPattern(host) /\ ~HostnamePattern(host)
        THEN Verdict(FALSE, "Invalid host format. Use a valid domain name or IP address")
    ELSE IF config.port > PORT_MAX
        THEN Verdict(FALSE, "Port must be between 1 and 65535")
    ELSE Verdict(TRUE, NULL)

\* the checks validateProxyConfig makes on a server type's host and port
ValidateServer(config) ==
    LET host == Trim(config.host)
        isValidIP == IpPattern(host)
    IN
    IF host = <<>> THEN Verdict(FALSE, "Proxy host is required")
    ELSE IF StrLen(host) > MAX_HOST_LENGTH
        THEN Verdict(FALSE, "Host name is too long (max 255 characters)")
    ELSE IF isValidIP /\ \E i \in 1..4 : ParseDigits(Split(host, ".")[i]) > 255
        THEN Verdict(FALSE, "Invalid IP address format")
    ELSE IF ~isValidIP /\ ~DomainPattern(host) /\ ~HostnamePattern(host)
        THEN Verdict(FALSE, "Invalid host format. Use a valid domain name or IP address")
    ELSE IF config.port < PORT_MIN \/ config.port > PORT_MAX
        THEN Verdict(FALSE, "Port must be between 1 and 65535")
    ELSE Verdict(TRUE, NULL)

ValidateBypass(config) ==
    IF Len(config.bypassList) > MAX_BYPASS_ENTRIES
        THEN Verdict(FALSE, "Bypass list is too long (max 100 entries)")
        ELSE Verdict(TRUE, NULL)

\* a variant that looks at the bypass list of every type
validateProxyConfigStrict(config) ==
    IF Trim(config.name) = <<>> THEN Verdict(FALSE, "Proxy name is required")
    ELSE IF StrLen(Trim(config.name)) > MAX_PROXY_NAME_LENGTH
        THEN Verdict(FALSE, "Proxy name must be 100 characters or less")
    ELSE IF config.type = "" THEN Verdict(FALSE, "Proxy type is required")
    ELSE IF config.type \notin PROXY_TYPES THEN Verdict(FALSE, "Invalid proxy type")
    ELSE IF config.type = "pac"
        THEN (IF ValidatePac(config).valid THEN ValidateBypass(config) ELSE ValidatePac(config))
    ELSE IF config.type \in {"auto_detect", "direct"} THEN ValidateBypass(config)
    ELSE IF ValidateServer(config).valid THEN ValidateBypass(config)
    ELSE ValidateServer(config)

validateProxyConfig(config) ==
    IF Trim(config.name) = <<>> THEN Verdict(FALSE, "Proxy name is required")
    ELSE IF StrLen(Trim(config.name)) > MAX_PROXY_NAME_LENGTH
        THEN Verdict(FALSE, "Proxy name must be 100 characters or less")
    ELSE IF config.type = "" THEN Verdict(FALSE, "Proxy type is required")
    ELSE IF config.type \notin PROXY_TYPES THEN Verdict(FALSE, "Invalid proxy type")
    ELSE IF config.type = "pac"
        THEN (IF ValidatePac(config).valid THEN ValidateBypass(config) ELSE ValidatePac(config))
    ELSE IF config.type \in {"auto_detect", "direct"} THEN Verdict(TRUE, NULL)
    ELSE IF ValidateServer(config).valid THEN ValidateBypass(config)
    ELSE ValidateServer(config)

\* validateProxyConfig assigns config.host = config.host.trim() once a server
\* type's host and port have passed (before the bypass list is looked at)
AfterValidate(config) ==
    IF /\ validateProxyConfig(config).error \notin
              {"Proxy name is required", "Proxy name must be 100 characters or less",
               "Proxy type is required", "Invalid proxy type"}
       /\ config.type \in {"http", "https", "socks4", "socks5"}
       /\ ValidateServer(config).valid
    THEN [config EXCEPT !.host = Trim(config.host)]
    ELSE config

\* a member of an array that is not a string (a number other than 0)
NotAString == <<"(number)">>

\* an array of strings as the argument of generateBypassList
ArrayOf(list) == [kind |-> "array", str |-> <<>>, arr |-> list]

\* generateBypassList(domains).  The argument is absent (undefined or null), a
\* string, an array of strings and numbers, or some other value (a number, an
\* object); the call throws when d.trim() is evaluated on a member that is a number.
generateBypassList(domains) ==
    IF domains.kind = "absent" \/ (domains.kind = "string" /\ domains.str = <<>>)
        THEN [threw |-> FALSE, list |-> DEFAULT_BYPASS_LIST]
    ELSE IF domains.kind = "string"
        THEN LET parts == Split(domains.str, ",")
                 trimmed == [i \in 1..Len(parts) |-> Trim(parts[i])]
             IN  [threw |-> FALSE, list |-> SelectSeq(trimmed, LAMBDA d : d # <<>>)]
    ELSE IF domains.kind # "array"
        THEN [threw |-> FALSE, list |-> DEFAULT_BYPASS_LIST]
    ELSE IF \E i \in 1..Len(domains.arr) : domains.arr[i] = NotAString
        THEN [threw |-> TRUE, list |-> <<>>]
    ELSE [threw |-> FALSE, list |-> SelectSeq(domains.arr, LAMBDA d : Trim(d) # <<>>)]

\* formatProxyRules throws on these configurations
FormatThrows(config) ==
    \/ config.type = ""
    \/ config.type = "pac" /\ config.pacScript = <<>>
    \/ /\ config.type \notin {"direct", "auto_detect", "pac"}
       /\ \/ config.host = <<>>
          \/ config.port = 0
          \/ generateBypassList(ArrayOf(config.bypassList)).threw

formatProxyRules(config) ==
    CASE config.type = "direct" -> [mode |-> "direct", scope |-> "regular"]
      [] config.type = "auto_detect" -> [mode |-> "auto_detect", scope |-> "regular"]
      [] config.type = "pac" ->
            [mode |-> "pac_script", pacScript |-> config.pacScript, scope |-> "regular"]
      [] OTHER ->
            [mode |-> "fixed_servers", scheme |-> config.type, host |-> Trim(config.host),
             port |-> config.port,
             bypassList |-> generateBypassList(ArrayOf(config.bypassList)).list,
             scope |-> "regular"]

(* ------------------------------- state --------------------------------- *)
VARIABLES
    storage,           \* chrome.storage.local: the four persisted keys
    heap,              \* the array objects getProxyConfigs and the writers hand around
    cache,             \* storage.js module state of each context: configsCache, cacheValid
    proxyConfigCache,  \* the service worker's Map of recently resolved configurations
    platform,          \* chrome.proxy.settings: the value in force
    badge,             \* chrome.action badge: text and color
    task,              \* the commands in flight, one record per slot
    hist               \* bookkeeping: ids handed out, commands started, rejected calls

vars == <<storage, heap, cache, proxyConfigCache, platform, badge, task, hist>>

Slots == 1..MaxInFlight
Contexts == {"sw", "opt"}
Refs == 1..(MaxInFlight + 2)       \* one array per slot and per context's cache
NoRef == 0

IdNames == <<"id1", "id2", "id3", "id4", "id5", "id6">>
ForeignId == "idX"                 \* an id that only an imported file carries
AllIds == {IdNames[i] : i \in 1..MaxIds} \cup {ForeignId}

NoConfig == [id |-> NULL]

IdleTask ==
    [cmd |-> "idle", ctx |-> "sw", pc |-> "idle", id |-> NULL, data |-> NoConfig,
     merge |-> FALSE, arr |-> NoRef, config |-> NoConfig, attempt |-> 0, ok |-> TRUE,
     nested |-> FALSE, sub |-> [cur |-> "none", stats |-> "none", badge |-> "none"],
     read |-> NULL, stats |-> <<>>, before |-> 0,
     settings |-> NoConfig, timer |-> "none",
     error |-> NULL, resp |-> [sent |-> FALSE], log |-> <<>>]

\* what the form of the options page sends (handleFormSubmit): SAVE_CONFIG data
FormInputs ==
    { [name |-> <<"a">>, type |-> "http", host |-> <<"h">>, port |-> 8080,
       bypassList |-> <<>>, pacScript |-> <<>>],
      [name |-> <<"b">>, type |-> "socks5", host |-> <<>>, port |-> 8080,
       bypassList |-> <<>>, pacScript |-> <<>>] }

\* an exported file as importData receives it: configs is <<>> (no such field)
\* or <<array>>
ImportInputs ==
    { [configs |-> << << [id |-> ForeignId, name |-> <<"x">>, type |-> "http",
                          host |-> <<"h">>, port |-> 0, bypassList |-> <<>>,
                          pacScript |-> <<>>, lastUsed |-> NULL] >> >>,
       settings |-> TRUE],
      [configs |-> <<>>, settings |-> FALSE] }

Ids(configs) == {configs[i].id : i \in 1..Len(configs)}

\* Array.prototype.findIndex(c => c.id === id), 0 when there is none
FindIndex(configs, id) ==
    IF id \in Ids(configs)
        THEN CHOOSE i \in 1..Len(configs) :
                 configs[i].id = id /\ \A j \in 1..(i - 1) : configs[j].id # id
        ELSE 0

\* Array.prototype.find(c => c.id === id) || null
Find(configs, id) ==
    IF FindIndex(configs, id) = 0 THEN NoConfig ELSE configs[FindIndex(configs, id)]


\* the arrays something still refers to
Live(c, t) == {c[x].configsCache : x \in Contexts} \cup {t[h].arr : h \in Slots}
Collect(hp, c, t) == [r \in Refs |-> IF r \in Live(c, t) THEN hp[r] ELSE <<>>]
\* a new array object
Fresh == CHOOSE r \in Refs : r \notin Live(cache, task) /\
                             \A q \in Refs : q \notin Live(cache, task) => r <= q

Event(op, arg, ok) == [op |-> op, arg |-> arg, ok |-> ok]
Logged(t, op, arg, ok) == [t EXCEPT !.log = Append(@, Event(op, arg, ok))]

InFlight(h) == task[h].cmd # "idle"
Quiescent == \A h \in Slots : ~InFlight(h)

\* the configuration SAVE_CONFIG stores for the first form input under id1
SavedConfig ==
    createProxyConfig([name |-> <<"a">>, type |-> "http", host |-> <<"h">>, port |-> 8080,
                       bypassList |-> <<>>, pacScript |-> <<>>], IdNames[1])

StatsOf(n) == [i \in AllIds |-> IF i = IdNames[1] THEN n ELSE 0]

\* after chrome.runtime.onInstalled: initializeStorage() and updateBadge(null)
InitFresh ==
    /\ storage = [proxyConfigs |-> <<>>, currentProxyId |-> NULL,
                  statistics |-> StatsOf(0), settings |-> "default"]
    /\ heap = [r \in Refs |-> <<>>]
    /\ cache = [x \in Contexts |-> [configsCache |-> NoRef, cacheValid |-> FALSE]]
    /\ platform = [mode |-> "system"]
    /\ badge = [text |-> BADGE_TEXT.INACTIVE, color |-> BADGE_COLORS.INACTIVE]
    /\ hist.nextId = 1

\* later in the extension's life: one configuration has been saved, and perhaps
\* applied; the service worker still has its array cached (warm), or has been
\* restarted since (cold)
InitSaved ==
    /\ \E active \in BOOLEAN :
        /\ storage = [proxyConfigs |-> <<SavedConfig>>,
                      currentProxyId |-> IF active THEN SavedConfig.id ELSE NULL,
                      statistics |-> StatsOf(IF active THEN 1 ELSE 0), settings |-> "default"]
        /\ platform = IF active THEN formatProxyRules(SavedConfig) ELSE [mode |-> "system"]
        /\ badge = IF active
                    THEN [text |-> BADGE_TEXT.ACTIVE, color |-> BADGE_COLORS.ACTIVE]
                    ELSE [text |-> BADGE_TEXT.INACTIVE, color |-> BADGE_COLORS.INACTIVE]
    /\ \E warm \in BOOLEAN :
        /\ heap = [r \in Refs |-> IF warm /\ r = 1 THEN <<SavedConfig>> ELSE <<>>]
        /\ cache = [x \in Contexts |->
                        IF warm /\ x = "sw" THEN [configsCache |-> 1, cacheValid |-> TRUE]
                        ELSE [configsCache |-> NoRef, cacheValid |-> FALSE]]
    /\ hist.nextId = 2

\* the limits of one behaviour: commands started and in flight, calls that reject
Limits(cmds, slots, faults, proxyFaults) ==
    /\ hist \in [nextId : {1, 2}, cmds : {0}, faults : {0}, proxyFaults : {0},
                  started : {{}}, removed : {{}},
                  maxCmds : {cmds}, slots : {slots}, maxFaults : {faults},
                  maxProxyFaults : {proxyFaults}]
    /\ proxyConfigCache = [i \in AllIds |-> NoConfig]
    /\ task = [h \in Slots |-> IdleTask]

\* handlers interleave: up to MaxInFlight commands at a time; platform calls may
\* reject, storage and badge calls do not
Init ==
    /\ Limits(MaxCmds, MaxInFlight, 0, MaxProxyFaults)
    /\ InitFresh \/ InitSaved

\* one command at a time; platform, storage and badge calls may reject
InitSeq ==
    /\ Limits(MaxCmds, 1, MaxFaults, MaxProxyFaults)
    /\ InitFresh \/ InitSaved

(* ------------------------- scripts/storage.js -------------------------- *)
CacheHit(x) == cache[x].cacheValid /\ cache[x].configsCache # NoRef

\* getProxyConfigs after its chrome.storage.local.get resolved: the array read
\* becomes the cache
Cached(x, r) == [cache EXCEPT ![x] = [configsCache |-> r, cacheValid |-> TRUE]]

\* the handler's answer: sendResponse for a message, the returned result for importData;
\* data is <<value>> in a success and <<>> (no such field) in a failure
Respond(t, success, error, data) ==
    [t EXCEPT !.pc = "done", !.arr = NoRef,
              !.resp = [sent |-> TRUE, success |-> success, error |-> error,
                        data |-> IF success THEN <<data>> ELSE <<>>]]

\* a command arrives in a free slot
Begin(h, cmd, ctx) ==
    /\ task[h].cmd = "idle"
    /\ h <= hist.slots
    /\ \A g \in Slots : g < h => task[g].cmd # "idle"
    /\ hist.cmds < hist.maxCmds

Started(cmd, ctx, pc) == [IdleTask EXCEPT !.cmd = cmd, !.ctx = ctx, !.pc = pc]
Counted(hs, cmd) == [hs EXCEPT !.cmds = @ + 1, !.started = @ \cup {cmd}]

\* crypto.randomUUID() hands out IdNames[nextId] and nextId grows by one

\* does this chrome.storage or chrome.action call reject?  At most MaxFaults calls
\* do, and at most MaxProxyFaults chrome.proxy calls.
OutcomesOf(hs) == IF hs.faults < hs.maxFaults THEN {TRUE, FALSE} ELSE {TRUE}
FaultOn(hs, ok) == IF ok THEN hs ELSE [hs EXCEPT !.faults = @ + 1]
ProxyOutcomesOf(hs) == IF hs.proxyFaults < hs.maxProxyFaults THEN {TRUE, FALSE} ELSE {TRUE}
ProxyFaultOn(hs, ok) == IF ok THEN hs ELSE [hs EXCEPT !.proxyFaults = @ + 1]

\* the ids a user interface can name: those handed out so far and a foreign one
KnownIds == {IdNames[i] : i \in 1..(hist.nextId - 1)} \cup {ForeignId}

\* proxyConfigCache.clear()
clearConfigCache == [i \in AllIds |-> NoConfig]

\* the pending chrome.storage.local.get of getProxyConfigs is issued: the array it
\* will resolve to is read now
ReadConfigs(h, t, pc, hs) ==
    /\ task' = [task EXCEPT ![h] = [t EXCEPT !.pc = pc, !.arr = Fresh]]
    /\ heap' = Collect([heap EXCEPT ![Fresh] = storage.proxyConfigs], cache, task')
    /\ hist' = hs
    /\ UNCHANGED <<storage, cache, proxyConfigCache, platform, badge>>

(* GET_CONFIGS: service-worker.js 346-351 over getProxyConfigs *)
GetConfigsStart(h) ==
    /\ Begin(h, "GET_CONFIGS", "sw")
    /\ IF CacheHit("sw")
        THEN /\ task' = [task EXCEPT ![h] =
                    Respond(Started("GET_CONFIGS", "sw", "start"), TRUE, NULL,
                            heap[cache["sw"].configsCache])]
             /\ heap' = heap
             /\ hist' = Counted(hist, "GET_CONFIGS")
             /\ UNCHANGED <<storage, cache, proxyConfigCache, platform, badge>>
        ELSE ReadConfigs(h, Started("GET_CONFIGS", "sw", "start"), "list_get", Counted(hist, "GET_CONFIGS"))

GetConfigsGot(h) ==
    /\ task[h].pc = "list_get"
    /\ cache' = Cached("sw", task[h].arr)
    /\ task' = [task EXCEPT ![h] = Respond(@, TRUE, NULL, heap[task[h].arr])]
    /\ heap' = Collect(heap, cache', task')
    /\ UNCHANGED <<storage, proxyConfigCache, platform, badge, hist>>

(* SAVE_CONFIG: service-worker.js 353-370 over saveProxyConfig (part_001 638-644) *)

\* configs.push(config); await chrome.storage.local.set(...), on the array t.arr
SaveWrite(h, t, c, hs) ==
    \E ok \in OutcomesOf(hs) :
        /\ storage' = IF ok THEN [storage EXCEPT !.proxyConfigs = Append(heap[t.arr], t.data)]
                            ELSE storage
        /\ cache' = c
        /\ task' = [task EXCEPT ![h] =
                Logged([t EXCEPT !.pc = "save_set", !.ok = ok], "storage.set", "proxyConfigs", ok)]
        /\ heap' = Collect([heap EXCEPT ![t.arr] = Append(@, t.data)], cache', task')
        /\ hist' = FaultOn(hs, ok)
        /\ UNCHANGED <<proxyConfigCache, platform, badge>>

SaveStart(h) ==
    /\ Begin(h, "SAVE_CONFIG", "sw")
    /\ hist.nextId <= MaxIds
    /\ \E data \in FormInputs :
        LET config == createProxyConfig(data, IdNames[hist.nextId])
            t == [Started("SAVE_CONFIG", "sw", "start") EXCEPT
                     !.id = config.id, !.data = AfterValidate(config)]
            hs == [Counted(hist, "SAVE_CONFIG") EXCEPT !.nextId = @ + 1]     \* randomUUID
        IN  IF ~validateProxyConfig(config).valid
                THEN /\ task' = [task EXCEPT ![h] =
                            Respond(t, FALSE, validateProxyConfig(config).error, NULL)]
                     /\ hist' = hs
                     /\ UNCHANGED <<storage, heap, cache, proxyConfigCache, platform, badge>>
            ELSE IF CacheHit("sw")
                THEN SaveWrite(h, [t EXCEPT !.arr = cache["sw"].configsCache], cache, hs)
                ELSE ReadConfigs(h, t, "save_get", hs)

SaveGot(h) ==
    /\ task[h].pc = "save_get"
    /\ SaveWrite(h, task[h], Cached("sw", task[h].arr), hist)

SaveSet(h) ==
    /\ task[h].pc = "save_set"
    /\ IF task[h].ok
        THEN /\ cache' = Cached("sw", task[h].arr)
             /\ proxyConfigCache' = clearConfigCache
             /\ task' = [task EXCEPT ![h] = Respond(@, TRUE, NULL, task[h].data)]
        ELSE /\ task' = [task EXCEPT ![h] = Respond(@, FALSE, "storage error", NULL)]
             /\ UNCHANGED <<cache, proxyConfigCache>>
    /\ heap' = Collect(heap, cache', task')
    /\ UNCHANGED <<storage, platform, badge, hist>>

(* DELETE_CONFIG: service-worker.js 399-413 over deleteProxyConfig (part_001 672-691) *)

NotId(id, configs) == SelectSeq(configs, LAMBDA c : c.id # id)

\* configs.filter(...), the length test and the chrome.storage.local.set of the
\* filtered array, on the array t.arr
DeleteWrite(h, t, c, hs) ==
    LET filtered == NotId(t.id, heap[t.arr]) IN
    IF Len(filtered) = Len(heap[t.arr])
        THEN /\ task' = [task EXCEPT ![h] = Respond(t, FALSE, "Configuration not found", NULL)]
             /\ cache' = c
             /\ proxyConfigCache' = clearConfigCache
             /\ heap' = Collect(heap, cache', task')
             /\ hist' = hs
             /\ UNCHANGED <<storage, platform, badge>>
        ELSE \E ok \in OutcomesOf(hs) :
             /\ storage' = IF ok THEN [storage EXCEPT !.proxyConfigs = filtered] ELSE storage
             /\ cache' = c
             /\ LET r == CHOOSE q \in Refs : q \notin Live(c, task) \cup {t.arr} /\
                             \A z \in Refs : z \notin Live(c, task) \cup {t.arr} => q <= z
                IN  /\ task' = [task EXCEPT ![h] =
                            Logged([t EXCEPT !.pc = "del_set", !.ok = ok, !.arr = r],
                                   "storage.set", "proxyConfigs", ok)]
                    /\ heap' = Collect([heap EXCEPT ![r] = filtered], cache', task')
             /\ hist' = IF ok THEN [hs EXCEPT !.removed = @ \cup {t.id}] ELSE FaultOn(hs, ok)
             /\ UNCHANGED <<proxyConfigCache, platform, badge>>

DeleteStart(h) ==
    /\ Begin(h, "DELETE_CONFIG", "sw")
    /\ \E id \in KnownIds :
        LET t == [Started("DELETE_CONFIG", "sw", "start") EXCEPT !.id = id] IN
        IF CacheHit("sw")
            THEN DeleteWrite(h, [t EXCEPT !.arr = cache["sw"].configsCache], cache, Counted(hist, "DELETE_CONFIG"))
            ELSE ReadConfigs(h, t, "del_get", Counted(hist, "DELETE_CONFIG"))

DeleteGot(h) ==
    /\ task[h].pc = "del_get"
    /\ DeleteWrite(h, task[h], Cached("sw", task[h].arr), hist)

\* the set resolved: the filtered array becomes the cache, getCurrentProxyId is issued
DeleteSet(h) ==
    /\ task[h].pc = "del_set"
    /\ IF task[h].ok
        THEN /\ cache' = Cached("sw", task[h].arr)
             /\ task' = [task EXCEPT ![h] =
                    [@ EXCEPT !.pc = "del_cur", !.read = storage.currentProxyId, !.arr = NoRef]]
        ELSE /\ task' = [task EXCEPT ![h] = Respond(@, FALSE, "storage error", NULL)]
             /\ cache' = cache
    /\ heap' = Collect(heap, cache', task')
    /\ UNCHANGED <<storage, proxyConfigCache, platform, badge, hist>>

\* if (currentProxyId === id) await setCurrentProxyId(null)
DeleteCur(h) ==
    /\ task[h].pc = "del_cur"
    /\ IF task[h].read = task[h].id
        THEN \E ok \in OutcomesOf(hist) :
             /\ storage' = IF ok THEN [storage EXCEPT !.currentProxyId = NULL] ELSE storage
             /\ task' = [task EXCEPT ![h] =
                    Logged([@ EXCEPT !.pc = "del_clr", !.ok = ok], "setCurrentProxyId", NULL, ok)]
             /\ hist' = FaultOn(hist, ok)
             /\ UNCHANGED proxyConfigCache
        ELSE /\ task' = [task EXCEPT ![h] = Respond(@, TRUE, NULL, "Configuration deleted")]
             /\ proxyConfigCache' = clearConfigCache
             /\ UNCHANGED <<storage, hist>>
    /\ UNCHANGED <<heap, cache, platform, badge>>

DeleteCleared(h) ==
    /\ task[h].pc = "del_clr"
    /\ IF task[h].ok
        THEN /\ task' = [task EXCEPT ![h] = Respond(@, TRUE, NULL, "Configuration deleted")]
             /\ proxyConfigCache' = clearConfigCache
        ELSE /\ task' = [task EXCEPT ![h] = Respond(@, FALSE, "storage error", NULL)]
             /\ UNCHANGED proxyConfigCache
    /\ UNCHANGED <<storage, heap, cache, platform, badge, hist>>

(* APPLY_PROXY: applyProxyConfig, service-worker.js 84-142, with retryOperation *)
(* (utils.js 34-51) and updateBadge (service-worker.js 296-311)               *)

\* what a rejected chrome.proxy.settings.set reports on attempt n
PlatformError(n) == <<"proxy error 1", "proxy error 2", "proxy error 3", "proxy error 4">>[n]

\* applyProxyConfig returns; inside UPDATE_CONFIG the handler goes on to answer
\* success whatever the apply returned
ApplyReturn(t, success, error) ==
    LET u == Logged(t, "apply.return", error, success) IN
    IF t.nested THEN Respond(u, TRUE, NULL, t.data)
    ELSE IF success THEN Respond(u, TRUE, NULL, [id |-> t.config.id, name |-> t.config.name])
    ELSE Respond(u, FALSE, error, NULL)

\* catch (error) { await updateBadge(null, true); ... }: setBadgeText('!') is issued
ApplyCatch(h, t, err, hp, c, pcc, hs) ==
    \E ok \in OutcomesOf(hs) :
        /\ badge' = IF ok THEN [badge EXCEPT !.text = BADGE_TEXT.ERROR] ELSE badge
        /\ task' = [task EXCEPT ![h] =
                Logged([t EXCEPT !.pc = "apply_err_text", !.error = err, !.ok = ok, !.arr = NoRef],
                       "badge.text", BADGE_TEXT.ERROR, ok)]
        /\ cache' = c
        /\ proxyConfigCache' = pcc
        /\ heap' = Collect(hp, cache', task')
        /\ hist' = FaultOn(hs, ok)
        /\ UNCHANGED <<storage, platform>>

\* one attempt of retryOperation: chrome.proxy.settings.set(proxySettings) is issued
PlatformSet(h, t, hp, c, pcc, hs) ==
    \E ok \in ProxyOutcomesOf(hs) :
        /\ platform' = IF ok THEN t.settings ELSE platform
        /\ task' = [task EXCEPT ![h] =
                Logged([t EXCEPT !.pc = "apply_set", !.ok = ok, !.arr = NoRef],
                       "proxy.set", t.settings, ok)]
        /\ cache' = c
        /\ proxyConfigCache' = pcc
        /\ heap' = Collect(hp, cache', task')
        /\ hist' = ProxyFaultOn(hs, ok)
        /\ UNCHANGED <<storage, badge>>

\* lines 99-101 and 105-107: return { success: false, error } before the try block
\* has touched anything
ApplyRejectClearing(h, t, error, hp, c, pcc, hs) ==
    /\ task' = [task EXCEPT ![h] = ApplyReturn(t, FALSE, error)]
    /\ cache' = c
    /\ proxyConfigCache' = pcc
    /\ heap' = Collect(hp, cache', task')
    /\ hist' = hs
    /\ storage' = [storage EXCEPT !.currentProxyId = NULL]
    /\ platform' = [mode |-> "cleared", scope |-> "regular"]
    /\ UNCHANGED badge

ApplyReject(h, t, error, hp, c, pcc, hs) ==
    /\ task' = [task EXCEPT ![h] = ApplyReturn(t, FALSE, error)]
    /\ cache' = c
    /\ proxyConfigCache' = pcc
    /\ heap' = Collect(hp, cache', task')
    /\ hist' = hs
    /\ UNCHANGED <<storage, platform, badge>>

\* line 104: if (!validation.valid)
AcceptsAny(config) == TRUE

Accepts(config) == validateProxyConfig(config).valid

\* lines 97-117: the configuration is resolved (NoConfig: not found); validate,
\* format and the first platform set follow without a suspension
ApplyResolved(h, t, config, hp, c, pcc, hs) ==
    LET verdict == validateProxyConfig(config)
        checked == AfterValidate(config)
        t1 == Logged([t EXCEPT !.config = config], "resolve", config.id, config # NoConfig)
        t2 == Logged([t1 EXCEPT !.config = checked], "validate", config, verdict.valid)
        t3 == Logged([t2 EXCEPT !.settings = formatProxyRules(checked), !.attempt = 1],
                     "format", checked, TRUE)
    IN
    IF config = NoConfig
        THEN ApplyReject(h, t1, "Configuration not found", hp, c, pcc, hs)
    ELSE IF ~Accepts(config)
        THEN ApplyReject(h, t2, verdict.error, hp, c, [pcc EXCEPT ![t.id] = checked], hs)
    ELSE IF FormatThrows(checked)
        THEN ApplyCatch(h, Logged(t2, "format", checked, FALSE), "Host and port are required",
                        hp, c, [pcc EXCEPT ![t.id] = checked], hs)
    ELSE PlatformSet(h, t3, hp, c, [pcc EXCEPT ![t.id] = checked], hs)

\* the trimmed host validateProxyConfig leaves in the object it was given, which is
\* the element of the array it was found in
Validated(hp, r, id) ==
    IF FindIndex(hp[r], id) = 0 THEN hp
    ELSE [hp EXCEPT ![r][FindIndex(hp[r], id)] = AfterValidate(@)]

\* applyProxyConfig(t.id) is called: lines 88-95
ApplyCall(h, t, hs) ==
    \/ /\ proxyConfigCache[t.id] # NoConfig          \* getCachedConfig: still fresh
       /\ ApplyResolved(h, t, proxyConfigCache[t.id], heap, cache, proxyConfigCache, hs)
    \/ LET pcc == [proxyConfigCache EXCEPT ![t.id] = NoConfig] IN   \* absent or expired
       IF CacheHit("sw")
           THEN ApplyResolved(h, t, Find(heap[cache["sw"].configsCache], t.id),
                              Validated(heap, cache["sw"].configsCache, t.id), cache, pcc, hs)
           ELSE /\ ReadConfigs(h, t, "apply_get", hs)
                /\ TRUE

ApplyStart(h) ==
    /\ Begin(h, "APPLY_PROXY", "sw")
    /\ \E id \in KnownIds :
        ApplyCall(h, [Started("APPLY_PROXY", "sw", "start") EXCEPT
                         !.id = id, !.before = storage.statistics[id]],
                  Counted(hist, "APPLY_PROXY"))

ApplyGot(h) ==
    /\ task[h].pc = "apply_get"
    /\ ApplyResolved(h, task[h], Find(heap[task[h].arr], task[h].id),
                     Validated(heap, task[h].arr, task[h].id),
                     Cached("sw", task[h].arr), proxyConfigCache, hist)

\* the platform set settled: commit (Promise.all, lines 121-125), back off, or give up
ApplySet(h) ==
    /\ task[h].pc = "apply_set"
    /\ LET t == task[h] IN
       IF t.ok
        THEN \E okCur \in OutcomesOf(hist) : \E okBadge \in OutcomesOf(FaultOn(hist, okCur)) :
             /\ storage' = IF okCur THEN [storage EXCEPT !.currentProxyId = t.id] ELSE storage
             /\ badge' = IF okBadge THEN [badge EXCEPT !.text = BADGE_TEXT.ACTIVE] ELSE badge
             /\ task' = [task EXCEPT ![h] =
                    Logged(Logged(Logged(
                        [t EXCEPT !.pc = "apply_commit", !.stats = <<storage.statistics>>,
                                  !.sub = [cur |-> IF okCur THEN "wait_ok" ELSE "wait_fail",
                                           stats |-> "get",
                                           badge |-> IF okBadge THEN "text_ok" ELSE "text_fail"]],
                        "setCurrentProxyId", t.id, okCur),
                        "getStatistics", t.id, TRUE),
                        "badge.text", BADGE_TEXT.ACTIVE, okBadge)]
             /\ hist' = FaultOn(FaultOn(hist, okCur), okBadge)
             /\ UNCHANGED <<heap, cache, proxyConfigCache, platform>>
        ELSE IF t.attempt < MAX_RETRY_ATTEMPTS
            THEN /\ task' = [task EXCEPT ![h] =
                        Logged([t EXCEPT !.pc = "apply_sleep", !.error = PlatformError(t.attempt)],
                               "sleep", RETRY_DELAY * t.attempt, TRUE)]
                 /\ UNCHANGED <<storage, heap, cache, proxyConfigCache, platform, badge, hist>>
            ELSE ApplyCatch(h, t, PlatformError(t.attempt), heap, cache, proxyConfigCache, hist)

\* the back-off delay of retryOperation elapsed: the next attempt
ApplyWakeSame(h) ==
    /\ task[h].pc = "apply_sleep"
    /\ PlatformSet(h, task[h], heap, cache, proxyConfigCache, hist)

ApplyWake(h) ==
    /\ task[h].pc = "apply_sleep"
    /\ PlatformSet(h, [task[h] EXCEPT !.attempt = @ + 1], heap, cache, proxyConfigCache, hist)

\* one member of the Promise.all settled, leaving the members in state sub:
\* the first rejection takes the handler to its catch block, the last fulfilment on
\* to its return
CommitStep(h, t, sub, err) ==
    LET u == [t EXCEPT !.sub = sub] IN
    IF t.pc # "apply_commit"
        THEN /\ task' = [task EXCEPT ![h] = u]
             /\ UNCHANGED <<heap, cache, proxyConfigCache, badge, hist>>
    ELSE IF err # NULL
        THEN /\ ApplyCatch(h, u, err, heap, cache, proxyConfigCache, hist)
             /\ TRUE
    ELSE IF sub.cur = "ok" /\ sub.stats = "ok" /\ sub.badge = "ok"
        THEN /\ task' = [task EXCEPT ![h] = ApplyReturn(u, TRUE, NULL)]
             /\ UNCHANGED <<heap, cache, proxyConfigCache, badge, hist>>
    ELSE /\ task' = [task EXCEPT ![h] = u]
         /\ UNCHANGED <<heap, cache, proxyConfigCache, badge, hist>>

\* setCurrentProxyId(configId) settled
CommitCur(h) ==
    /\ task[h].sub.cur \in {"wait_ok", "wait_fail"}
    /\ IF task[h].sub.cur = "wait_ok"
        THEN CommitStep(h, task[h], [task[h].sub EXCEPT !.cur = "ok"], NULL)
        ELSE CommitStep(h, task[h], [task[h].sub EXCEPT !.cur = "fail"], "storage error")
    /\ UNCHANGED <<storage, platform>>

\* updateStatistics: getStatistics resolved; stats.byProxy[proxyId].connections++ on
\* the object read, which is then written
CommitStatsGot(h) ==
    /\ task[h].sub.stats = "get"
    /\ \E ok \in OutcomesOf(hist) :
        /\ storage' = IF ok THEN [storage EXCEPT !.statistics =
                                        [task[h].stats[1] EXCEPT ![task[h].id] = @ + 1]]
                            ELSE storage
        /\ task' = [task EXCEPT ![h] =
                Logged([@ EXCEPT !.sub.stats = IF ok THEN "wait_ok" ELSE "wait_fail"],
                       "updateStatistics", task[h].id, ok)]
        /\ hist' = FaultOn(hist, ok)
    /\ UNCHANGED <<heap, cache, proxyConfigCache, platform, badge>>

\* updateStatistics settled
CommitStats(h) ==
    /\ task[h].sub.stats \in {"wait_ok", "wait_fail"}
    /\ IF task[h].sub.stats = "wait_ok"
        THEN CommitStep(h, task[h], [task[h].sub EXCEPT !.stats = "ok"], NULL)
        ELSE CommitStep(h, task[h], [task[h].sub EXCEPT !.stats = "fail"], "storage error")
    /\ UNCHANGED <<storage, platform>>

\* updateBadge(config): setBadgeText settled; the color follows unless it rejected
\* (updateBadge catches and logs the rejection)
CommitBadgeText(h) ==
    /\ task[h].sub.badge \in {"text_ok", "text_fail"}
    /\ IF task[h].sub.badge = "text_ok"
        THEN \E ok \in OutcomesOf(hist) :
             /\ badge' = IF ok THEN [badge EXCEPT !.color = BADGE_COLORS.ACTIVE] ELSE badge
             /\ task' = [task EXCEPT ![h] =
                    Logged([@ EXCEPT !.sub.badge = "color"], "badge.color", BADGE_COLORS.ACTIVE, ok)]
             /\ hist' = FaultOn(hist, ok)
             /\ UNCHANGED <<storage, heap, cache, proxyConfigCache, platform>>
        ELSE /\ CommitStep(h, task[h], [task[h].sub EXCEPT !.badge = "ok"], NULL)
             /\ UNCHANGED <<storage, platform>>

\* updateBadge(config): setBadgeBackgroundColor settled
CommitBadgeColor(h) ==
    /\ task[h].sub.badge = "color"
    /\ CommitStep(h, task[h], [task[h].sub EXCEPT !.badge = "ok"], NULL)
    /\ UNCHANGED <<storage, platform>>

\* updateBadge(null, true) in the catch block: setBadgeText('!') settled
ApplyErrText(h) ==
    /\ task[h].pc = "apply_err_text"
    /\ IF task[h].ok
        THEN \E ok \in OutcomesOf(hist) :
             /\ badge' = IF ok THEN [badge EXCEPT !.color = BADGE_COLORS.ERROR] ELSE badge
             /\ task' = [task EXCEPT ![h] =
                    Logged([@ EXCEPT !.pc = "apply_err_color"], "badge.color", BADGE_COLORS.ERROR, ok)]
             /\ hist' = FaultOn(hist, ok)
        ELSE /\ task' = [task EXCEPT ![h] = ApplyReturn(@, FALSE, task[h].error)]
             /\ UNCHANGED <<badge, hist>>
    /\ UNCHANGED <<storage, heap, cache, proxyConfigCache, platform>>

\* updateBadge(null, true): setBadgeBackgroundColor settled; line 140
ApplyErrColor(h) ==
    /\ task[h].pc = "apply_err_color"
    /\ task' = [task EXCEPT ![h] = ApplyReturn(@, FALSE, task[h].error)]
    /\ UNCHANGED <<storage, heap, cache, proxyConfigCache, platform, badge, hist>>

(* DISABLE_PROXY: clearProxy, service-worker.js 148-161 *)
DisableStart(h) ==
    /\ Begin(h, "DISABLE_PROXY", "sw")
    /\ \E ok \in ProxyOutcomesOf(hist) :
        /\ platform' = IF ok THEN [mode |-> "cleared", scope |-> "regular"] ELSE platform
        /\ task' = [task EXCEPT ![h] =
                Logged([Started("DISABLE_PROXY", "sw", "clear_set") EXCEPT !.ok = ok],
                       "proxy.clear", "regular", ok)]
        /\ hist' = ProxyFaultOn(Counted(hist, "DISABLE_PROXY"), ok)
    /\ UNCHANGED <<storage, heap, cache, proxyConfigCache, badge>>

\* the platform clear settled: setCurrentProxyId(null) is issued, or the catch block
DisableCleared(h) ==
    /\ task[h].pc = "clear_set"
    /\ IF task[h].ok
        THEN \E ok \in OutcomesOf(hist) :
             /\ storage' = IF ok THEN [storage EXCEPT !.currentProxyId = NULL] ELSE storage
             /\ task' = [task EXCEPT ![h] =
                    Logged([@ EXCEPT !.pc = "clear_cur", !.ok = ok],
                           "setCurrentProxyId", NULL, ok)]
             /\ hist' = FaultOn(hist, ok)
        ELSE /\ task' = [task EXCEPT ![h] = Respond(@, FALSE, "proxy error 1", NULL)]
             /\ UNCHANGED <<storage, hist>>
    /\ UNCHANGED <<heap, cache, proxyConfigCache, platform, badge>>

\* setCurrentProxyId(null) settled: updateBadge(null) issues setBadgeText('')
DisableCurForgiving(h) ==
    /\ task[h].pc = "clear_cur"
    /\ \E ok \in OutcomesOf(hist) :
        /\ badge' = IF ok THEN [badge EXCEPT !.text = BADGE_TEXT.INACTIVE] ELSE badge
        /\ task' = [task EXCEPT ![h] =
                Logged([@ EXCEPT !.pc = "clear_text", !.ok = ok],
                       "badge.text", BADGE_TEXT.INACTIVE, ok)]
        /\ hist' = FaultOn(hist, ok)
    /\ UNCHANGED <<storage, heap, cache, proxyConfigCache, platform>>

DisableCur(h) ==
    /\ task[h].pc = "clear_cur"
    /\ IF task[h].ok
        THEN \E ok \in OutcomesOf(hist) :
             /\ badge' = IF ok THEN [badge EXCEPT !.text = BADGE_TEXT.INACTIVE] ELSE badge
             /\ task' = [task EXCEPT ![h] =
                    Logged([@ EXCEPT !.pc = "clear_text", !.ok = ok],
                           "badge.text", BADGE_TEXT.INACTIVE, ok)]
             /\ hist' = FaultOn(hist, ok)
        ELSE /\ task' = [task EXCEPT ![h] = Respond(@, FALSE, "storage error", NULL)]
             /\ UNCHANGED <<badge, hist>>
    /\ UNCHANGED <<storage, heap, cache, proxyConfigCache, platform>>

DisableText(h) ==
    /\ task[h].pc = "clear_text"
    /\ IF task[h].ok
        THEN \E ok \in OutcomesOf(hist) :
             /\ badge' = IF ok THEN [badge EXCEPT !.color = BADGE_COLORS.INACTIVE] ELSE badge
             /\ task' = [task EXCEPT ![h] =
                    Logged([@ EXCEPT !.pc = "clear_color"], "badge.color", BADGE_COLORS.INACTIVE, ok)]
             /\ hist' = FaultOn(hist, ok)
        ELSE /\ task' = [task EXCEPT ![h] = Respond(@, TRUE, NULL, "Direct connection enabled")]
             /\ UNCHANGED <<badge, hist>>
    /\ UNCHANGED <<storage, heap, cache, proxyConfigCache, platform>>

DisableColor(h) ==
    /\ task[h].pc = "clear_color"
    /\ task' = [task EXCEPT ![h] = Respond(@, TRUE, NULL, "Direct connection enabled")]
    /\ UNCHANGED <<storage, heap, cache, proxyConfigCache, platform, badge, hist>>

(* UPDATE_CONFIG: service-worker.js 372-397 over updateProxyConfig (part_001 652-665) *)

\* { ...configs[index], ...updatedConfig }
Merged(old, patch) ==
    [f \in DOMAIN old \cup DOMAIN patch |-> IF f \in DOMAIN patch THEN patch[f] ELSE old[f]]

\* findIndex, the in-place merge and the chrome.storage.local.set, on the array t.arr
UpdateWrite(h, t, c, hs) ==
    LET i == FindIndex(heap[t.arr], t.id) IN
    IF i = 0
        THEN /\ task' = [task EXCEPT ![h] = Respond(t, FALSE, "Configuration not found", NULL)]
             /\ cache' = c
             /\ heap' = Collect(heap, cache', task')
             /\ hist' = hs
             /\ UNCHANGED <<storage, proxyConfigCache, platform, badge>>
        ELSE LET configs == [heap[t.arr] EXCEPT ![i] = Merged(@, t.data)] IN
             \E ok \in OutcomesOf(hs) :
             /\ storage' = IF ok THEN [storage EXCEPT !.proxyConfigs = configs] ELSE storage
             /\ cache' = c
             /\ task' = [task EXCEPT ![h] =
                    Logged([t EXCEPT !.pc = "upd_set", !.ok = ok], "storage.set", "proxyConfigs", ok)]
             /\ heap' = Collect([heap EXCEPT ![t.arr] = configs], cache', task')
             /\ hist' = FaultOn(hs, ok)
             /\ UNCHANGED <<proxyConfigCache, platform, badge>>

UpdateStart(h) ==
    /\ Begin(h, "UPDATE_CONFIG", "sw")
    /\ \E id \in KnownIds : \E form \in FormInputs :
        LET data == Merged(form, [id |-> id])
            t == [Started("UPDATE_CONFIG", "sw", "start") EXCEPT
                     !.id = id, !.data = AfterValidate(data)]
        IN  IF ~validateProxyConfig(data).valid
                THEN /\ task' = [task EXCEPT ![h] =
                            Respond(t, FALSE, validateProxyConfig(data).error, NULL)]
                     /\ hist' = Counted(hist, "UPDATE_CONFIG")
                     /\ UNCHANGED <<storage, heap, cache, proxyConfigCache, platform, badge>>
            ELSE IF CacheHit("sw")
                THEN UpdateWrite(h, [t EXCEPT !.arr = cache["sw"].configsCache], cache,
                                 Counted(hist, "UPDATE_CONFIG"))
                ELSE ReadConfigs(h, t, "upd_get", Counted(hist, "UPDATE_CONFIG"))

UpdateGot(h) ==
    /\ task[h].pc = "upd_get"
    /\ UpdateWrite(h, task[h], Cached("sw", task[h].arr), hist)

\* the set resolved: clearConfigCache() and getCurrentProxyId is issued
UpdateSet(h) ==
    /\ task[h].pc = "upd_set"
    /\ IF task[h].ok
        THEN /\ cache' = Cached("sw", task[h].arr)
             /\ proxyConfigCache' = clearConfigCache
             /\ task' = [task EXCEPT ![h] =
                    [@ EXCEPT !.pc = "upd_cur", !.read = storage.currentProxyId, !.arr = NoRef]]
        ELSE /\ task' = [task EXCEPT ![h] = Respond(@, FALSE, "storage error", NULL)]
             /\ UNCHANGED <<cache, proxyConfigCache>>
    /\ heap' = Collect(heap, cache', task')
    /\ UNCHANGED <<storage, platform, badge, hist>>

\* if (currentId === message.data.id) await applyProxyConfig(currentId)
UpdateCur(h) ==
    /\ task[h].pc = "upd_cur"
    /\ IF task[h].read = task[h].id
        THEN ApplyCall(h, [task[h] EXCEPT !.nested = TRUE,
                                          !.before = storage.statistics[task[h].id]], hist)
        ELSE /\ task' = [task EXCEPT ![h] = Respond(@, TRUE, NULL, task[h].data)]
             /\ UNCHANGED <<storage, heap, cache, proxyConfigCache, platform, badge, hist>>

(* importData(data, merge), part_001 830-872, called by the options page *)
(* (options.js 556-583), which has its own instance of storage.js        *)

\* for (const config of configs) mergedConfigs.push({ ...config, id: crypto.randomUUID() })
RECURSIVE Renamed(_, _)
Renamed(configs, n) ==
    IF configs = <<>> THEN <<>>
    ELSE <<[Head(configs) EXCEPT !.id = IdNames[n]]>> \o Renamed(Tail(configs), n + 1)

\* the chrome.storage.local.set of the merged or the imported array
ImportWrite(h, t, configs, c, hs) ==
    \E ok \in OutcomesOf(hs) :
        /\ storage' = IF ok THEN [storage EXCEPT !.proxyConfigs = configs] ELSE storage
        /\ cache' = c
        /\ LET r == CHOOSE q \in Refs : q \notin Live(c, task) \cup {t.arr} /\
                        \A z \in Refs : z \notin Live(c, task) \cup {t.arr} => q <= z
           IN  /\ task' = [task EXCEPT ![h] =
                       Logged([t EXCEPT !.pc = "imp_set", !.ok = ok, !.arr = r],
                              "storage.set", "proxyConfigs", ok)]
               /\ heap' = Collect([heap EXCEPT ![r] = configs], cache', task')
        /\ hist' = FaultOn(hs, ok)
        /\ UNCHANGED <<proxyConfigCache, platform, badge>>

ImportMerge(h, t, c) ==
    /\ hist.nextId + Len(t.data.configs[1]) <= MaxIds + 1
    /\ ImportWrite(h, t, heap[t.arr] \o Renamed(t.data.configs[1], hist.nextId), c,
                   [hist EXCEPT !.nextId = @ + Len(t.data.configs[1])])

\* importData is called: detectAndConvertFormat awaits the parser module
ImportStart(h) ==
    /\ Begin(h, "IMPORT", "opt")
    /\ \E data \in ImportInputs : \E merge \in BOOLEAN :
        /\ task' = [task EXCEPT ![h] =
            [Started("IMPORT", "opt", "imp_detect") EXCEPT !.data = data, !.merge = merge]]
        /\ hist' = Counted(hist, IF merge THEN "IMPORT" ELSE "IMPORT_REPLACE")
    /\ UNCHANGED <<storage, heap, cache, proxyConfigCache, platform, badge>>

\* detectAndConvertFormat returned or threw (part_001 879-905)
ImportDetected(h) ==
    /\ task[h].pc = "imp_detect"
    /\ LET t == task[h] IN
       IF t.data.configs = <<>>
        THEN /\ task' = [task EXCEPT ![h] =
                    Respond(t, FALSE, "Invalid data format: Unable to detect format type", NULL)]
             /\ UNCHANGED <<storage, heap, cache, proxyConfigCache, platform, badge, hist>>
       ELSE IF t.data.configs[1] = <<>>
        THEN /\ task' = [task EXCEPT ![h] =
                    Respond(t, FALSE, "No valid proxy configurations found", NULL)]
             /\ UNCHANGED <<storage, heap, cache, proxyConfigCache, platform, badge, hist>>
       ELSE IF ~t.merge THEN ImportWrite(h, t, t.data.configs[1], cache, hist)
       ELSE IF CacheHit("opt")
        THEN ImportMerge(h, [t EXCEPT !.arr = cache["opt"].configsCache], cache)
       ELSE ReadConfigs(h, t, "imp_get", hist)

ImportGot(h) ==
    /\ task[h].pc = "imp_get"
    /\ ImportMerge(h, task[h], Cached("opt", task[h].arr))

\* the set resolved: the written array becomes the cache; saveSettings if the file
\* carries settings
ImportSet(h) ==
    /\ task[h].pc = "imp_set"
    /\ IF ~task[h].ok
        THEN /\ task' = [task EXCEPT ![h] = Respond(@, FALSE, "storage error", NULL)]
             /\ UNCHANGED <<storage, cache, hist>>
       ELSE IF task[h].data.settings
        THEN \E ok \in OutcomesOf(hist) :
             /\ storage' = IF ok THEN [storage EXCEPT !.settings = "imported"] ELSE storage
             /\ cache' = Cached("opt", task[h].arr)
             /\ task' = [task EXCEPT ![h] =
                    Logged([@ EXCEPT !.pc = "imp_settings", !.ok = ok, !.arr = NoRef],
                           "storage.set", "settings", ok)]
             /\ hist' = FaultOn(hist, ok)
       ELSE /\ cache' = Cached("opt", task[h].arr)
            /\ task' = [task EXCEPT ![h] = Respond(@, TRUE, NULL, Len(task[h].data.configs[1]))]
            /\ UNCHANGED <<storage, hist>>
    /\ heap' = Collect(heap, cache', task')
    /\ UNCHANGED <<proxyConfigCache, platform, badge>>

ImportSettings(h) ==
    /\ task[h].pc = "imp_settings"
    /\ task' = [task EXCEPT ![h] =
            IF task[h].ok THEN Respond(@, TRUE, NULL, Len(task[h].data.configs[1]))
                          ELSE Respond(@, FALSE, "storage error", NULL)]
    /\ UNCHANGED <<storage, heap, cache, proxyConfigCache, platform, badge, hist>>

\* the response has been delivered and nothing the command started is pending
Retire(h) ==
    /\ task[h].pc = "done"
    /\ \A k \in {"cur", "stats", "badge"} : task[h].sub[k] \in {"none", "ok", "fail"}
    /\ task' = [task EXCEPT ![h] = IdleTask]
    /\ heap' = Collect(heap, cache, task')
    /\ UNCHANGED <<storage, cache, proxyConfigCache, platform, badge, hist>>

Next ==
    \E h \in Slots :
        \/ GetConfigsStart(h)
        \/ GetConfigsGot(h)
        \/ SaveStart(h)
        \/ SaveGot(h)
        \/ SaveSet(h)
        \/ DeleteStart(h)
        \/ DeleteGot(h)
        \/ DeleteSet(h)
        \/ DeleteCur(h)
        \/ DeleteCleared(h)
        \/ ApplyStart(h)
        \/ ApplyGot(h)
        \/ ApplySet(h)
        \/ ApplyWake(h)
        \/ CommitCur(h)
        \/ CommitStatsGot(h)
        \/ CommitStats(h)
        \/ CommitBadgeText(h)
        \/ CommitBadgeColor(h)
        \/ ApplyErrText(h)
        \/ ApplyErrColor(h)
        \/ DisableStart(h)
        \/ DisableCleared(h)
        \/ DisableCur(h)
        \/ DisableText(h)
        \/ DisableColor(h)
        \/ UpdateStart(h)
        \/ UpdateGot(h)
        \/ UpdateSet(h)
        \/ UpdateCur(h)
        \/ ImportStart(h)
        \/ ImportDetected(h)
        \/ ImportGot(h)
        \/ ImportSet(h)
        \/ ImportSettings(h)
        \/ Retire(h)

Spec == Init /\ [][Next]_vars

SpecSeq == InitSeq /\ [][Next]_vars

(* GET_STATUS: getCurrentProxy, service-worker.js 167-213 *)

InactiveStatus == [isActive |-> FALSE, proxy |-> NULL]
ActiveStatus(config) == [isActive |-> TRUE, proxy |-> [id |-> config.id, name |-> config.name]]

\* getCurrentProxyId is issued: the value it will resolve to is read now
StatusStart(h) ==
    /\ Begin(h, "GET_STATUS", "sw")
    /\ task' = [task EXCEPT ![h] =
            [Started("GET_STATUS", "sw", "status_cur") EXCEPT !.read = storage.currentProxyId]]
    /\ hist' = Counted(hist, "GET_STATUS")
    /\ UNCHANGED <<storage, heap, cache, proxyConfigCache, platform, badge>>

\* lines 180-191: the configuration is resolved; when it is missing
\* setCurrentProxyId(null) is issued
StatusResolved(h, t, config, c) ==
    IF config # NoConfig
        THEN /\ task' = [task EXCEPT ![h] = Respond(t, TRUE, NULL, ActiveStatus(config))]
             /\ cache' = c
             /\ heap' = Collect(heap, cache', task')
             /\ UNCHANGED <<storage, hist>>
        ELSE \E ok \in OutcomesOf(hist) :
             /\ storage' = IF ok THEN [storage EXCEPT !.currentProxyId = NULL] ELSE storage
             /\ task' = [task EXCEPT ![h] =
                    Logged([t EXCEPT !.pc = "status_clr", !.ok = ok, !.arr = NoRef],
                           "setCurrentProxyId", NULL, ok)]
             /\ cache' = c
             /\ heap' = Collect(heap, cache', task')
             /\ hist' = FaultOn(hist, ok)

\* getCurrentProxyId resolved: lines 171-180
StatusCur(h) ==
    /\ task[h].pc = "status_cur"
    /\ LET t == [task[h] EXCEPT !.id = task[h].read] IN
       IF t.read = NULL
        THEN /\ task' = [task EXCEPT ![h] = Respond(t, TRUE, NULL, InactiveStatus)]
             /\ UNCHANGED <<storage, heap, cache, hist>>
       ELSE IF CacheHit("sw")
        THEN StatusResolved(h, t, Find(heap[cache["sw"].configsCache], t.id), cache)
        ELSE /\ ReadConfigs(h, t, "status_get", hist)
             /\ TRUE
    /\ UNCHANGED <<proxyConfigCache, platform, badge>>

StatusGot(h) ==
    /\ task[h].pc = "status_get"
    /\ StatusResolved(h, task[h], Find(heap[task[h].arr], task[h].id), Cached("sw", task[h].arr))
    /\ UNCHANGED <<proxyConfigCache, platform, badge>>

\* setCurrentProxyId(null) settled: updateBadge(null) issues setBadgeText(''), or the
\* catch block answers
StatusCleared(h) ==
    /\ task[h].pc = "status_clr"
    /\ IF task[h].ok
        THEN \E ok \in OutcomesOf(hist) :
             /\ badge' = IF ok THEN [badge EXCEPT !.text = BADGE_TEXT.INACTIVE] ELSE badge
             /\ task' = [task EXCEPT ![h] =
                    Logged([@ EXCEPT !.pc = "status_text", !.ok = ok],
                           "badge.text", BADGE_TEXT.INACTIVE, ok)]
             /\ hist' = FaultOn(hist, ok)
        ELSE /\ task' = [task EXCEPT ![h] = Respond(@, FALSE, "storage error", NULL)]
             /\ UNCHANGED <<badge, hist>>
    /\ UNCHANGED <<storage, heap, cache, proxyConfigCache, platform>>

StatusText(h) ==
    /\ task[h].pc = "status_text"
    /\ IF task[h].ok
        THEN \E ok \in OutcomesOf(hist) :
             /\ badge' = IF ok THEN [badge EXCEPT !.color = BADGE_COLORS.INACTIVE] ELSE badge
             /\ task' = [task EXCEPT ![h] =
                    Logged([@ EXCEPT !.pc = "status_color"], "badge.color", BADGE_COLORS.INACTIVE, ok)]
             /\ hist' = FaultOn(hist, ok)
        ELSE /\ task' = [task EXCEPT ![h] = Respond(@, TRUE, NULL, InactiveStatus)]
             /\ UNCHANGED <<badge, hist>>
    /\ UNCHANGED <<storage, heap, cache, proxyConfigCache, platform>>

StatusColor(h) ==
    /\ task[h].pc = "status_color"
    /\ task' = [task EXCEPT ![h] = Respond(@, TRUE, NULL, InactiveStatus)]
    /\ UNCHANGED <<storage, heap, cache, proxyConfigCache, platform, badge, hist>>

(* GET_STATISTICS and CLEAR_STATISTICS: service-worker.js 423-436 *)
GetStatisticsStart(h) ==
    /\ Begin(h, "GET_STATISTICS", "sw")
    /\ task' = [task EXCEPT ![h] =
            [Started("GET_STATISTICS", "sw", "stats_get") EXCEPT !.stats = <<storage.statistics>>]]
    /\ hist' = Counted(hist, "GET_STATISTICS")
    /\ UNCHANGED <<storage, heap, cache, proxyConfigCache, platform, badge>>

GetStatisticsGot(h) ==
    /\ task[h].pc = "stats_get"
    /\ task' = [task EXCEPT ![h] = Respond(@, TRUE, NULL, task[h].stats[1])]
    /\ UNCHANGED <<storage, heap, cache, proxyConfigCache, platform, badge, hist>>

\* clearStatistics (part_001 773-775)
ClearStatisticsStart(h) ==
    /\ Begin(h, "CLEAR_STATISTICS", "sw")
    /\ LET hs == Counted(hist, "CLEAR_STATISTICS") IN
       \E ok \in OutcomesOf(hs) :
        /\ storage' = IF ok THEN [storage EXCEPT !.statistics = StatsOf(0)] ELSE storage
        /\ task' = [task EXCEPT ![h] =
                Logged([Started("CLEAR_STATISTICS", "sw", "clrstats_set") EXCEPT !.ok = ok],
                       "storage.set", "statistics", ok)]
        /\ hist' = FaultOn(hs, ok)
    /\ UNCHANGED <<heap, cache, proxyConfigCache, platform, badge>>

\* (mutant) the rejection of clearStatistics escapes the handler: nothing is answered
ClearStatisticsSetEscaping(h) ==
    /\ task[h].pc = "clrstats_set"
    /\ task' = [task EXCEPT ![h] =
            IF task[h].ok THEN Respond(@, TRUE, NULL, "Statistics cleared")
                          ELSE [@ EXCEPT !.pc = "done"]]
    /\ UNCHANGED <<storage, heap, cache, proxyConfigCache, platform, badge, hist>>

ClearStatisticsSet(h) ==
    /\ task[h].pc = "clrstats_set"
    /\ task' = [task EXCEPT ![h] =
            IF task[h].ok THEN Respond(@, TRUE, NULL, "Statistics cleared")
                          ELSE Respond(@, FALSE, "storage error", NULL)]
    /\ UNCHANGED <<storage, heap, cache, proxyConfigCache, platform, badge, hist>>

(* messages the listener answers at once: service-worker.js 335-338, 354-357, *)
(* 373-376, 400-403, 416-419 and the default branch 438-440                  *)

\* a message of a type that needs data but carries none
BadRequest(h) ==
    /\ Begin(h, "BAD_REQUEST", "sw")
    /\ \E type \in {"APPLY_PROXY", "SAVE_CONFIG", "UPDATE_CONFIG", "DELETE_CONFIG",
                    "TEST_CONNECTION"} :
        task' = [task EXCEPT ![h] =
            Respond([Started("BAD_REQUEST", "sw", "start") EXCEPT !.read = type], FALSE,
                    IF type = "SAVE_CONFIG" THEN "Configuration data required"
                                            ELSE "Config ID required", NULL)]
    /\ hist' = Counted(hist, "BAD_REQUEST")
    /\ UNCHANGED <<storage, heap, cache, proxyConfigCache, platform, badge>>

\* a message whose type is none of the ten commands
UnknownMessage(h) ==
    /\ Begin(h, "UNKNOWN", "sw")
    /\ task' = [task EXCEPT ![h] =
            Respond(Started("UNKNOWN", "sw", "start"), FALSE, "Unknown message type", NULL)]
    /\ hist' = Counted(hist, "UNKNOWN")
    /\ UNCHANGED <<storage, heap, cache, proxyConfigCache, platform, badge>>

(* TEST_CONNECTION: testProxyConnection, service-worker.js 220-288 *)

\* (mutant) the test puts the configuration under test in force before its request
TestResolvedApplying(h, t, config, hp, c, hs) ==
    /\ cache' = c
    /\ hist' = hs
    /\ IF config = NoConfig \/ ~validateProxyConfig(config).valid
        THEN /\ task' = [task EXCEPT ![h] = Respond(t, FALSE, "Configuration not found", NULL)]
             /\ platform' = platform
        ELSE /\ task' = [task EXCEPT ![h] =
                    Logged([t EXCEPT !.pc = "test_fetch", !.arr = NoRef, !.timer = "armed",
                                     !.config = AfterValidate(config)],
                           "fetch", "HEAD", TRUE)]
             /\ platform' = formatProxyRules(AfterValidate(config))
    /\ heap' = Collect(hp, cache', task')
    /\ UNCHANGED <<storage, proxyConfigCache, badge>>

\* the configuration is resolved and validated (lines 225-234); when it is valid the
\* timer is armed and the HEAD request is issued (lines 238-247)
TestResolved(h, t, config, hp, c, hs) ==
    /\ cache' = c
    /\ hist' = hs
    /\ IF config = NoConfig
        THEN /\ task' = [task EXCEPT ![h] = Respond(t, FALSE, "Configuration not found", NULL)]
             /\ heap' = Collect(hp, cache', task')
       ELSE IF ~validateProxyConfig(config).valid
        THEN /\ task' = [task EXCEPT ![h] =
                    Respond(t, FALSE, validateProxyConfig(config).error, NULL)]
             /\ heap' = Collect(hp, cache', task')
       ELSE /\ task' = [task EXCEPT ![h] =
                    Logged([t EXCEPT !.pc = "test_fetch", !.arr = NoRef, !.timer = "armed",
                                     !.config = AfterValidate(config)],
                           "fetch", "HEAD", TRUE)]
            /\ heap' = Collect(hp, cache', task')
    /\ UNCHANGED <<storage, proxyConfigCache, platform, badge>>

TestStart(h) ==
    /\ Begin(h, "TEST_CONNECTION", "sw")
    /\ \E id \in KnownIds :
        LET t == [Started("TEST_CONNECTION", "sw", "start") EXCEPT !.id = id] IN
        IF CacheHit("sw")
            THEN TestResolved(h, t, Find(heap[cache["sw"].configsCache], id),
                              Validated(heap, cache["sw"].configsCache, id), cache,
                              Counted(hist, "TEST_CONNECTION"))
            ELSE ReadConfigs(h, t, "test_get", Counted(hist, "TEST_CONNECTION"))

TestGot(h) ==
    /\ task[h].pc = "test_get"
    /\ TestResolved(h, task[h], Find(heap[task[h].arr], task[h].id),
                    Validated(heap, task[h].arr, task[h].id), Cached("sw", task[h].arr), hist)

\* the timer set at line 239 fires: controller.abort() rejects a pending request with
\* an AbortError and does nothing to a settled one
TestTimer(h) ==
    /\ task[h].timer = "armed"
    /\ task' = [task EXCEPT ![h] =
            [@ EXCEPT !.timer = "fired",
                      !.pc = IF task[h].pc = "test_fetch" THEN "test_aborted" ELSE @]]
    /\ UNCHANGED <<storage, heap, cache, proxyConfigCache, platform, badge, hist>>

\* (mutant) the request settled and the timer is left running
TestSettledKeepingTimer(h) ==
    /\ task[h].pc = "test_fetch"
    /\ \E outcome \in {"ok", "reject"} :
        task' = [task EXCEPT ![h] =
            IF outcome = "ok" THEN Respond(@, TRUE, NULL, [status |-> "success"])
            ELSE Respond(@, FALSE, "Connection failed: Failed to fetch", NULL)]
    /\ UNCHANGED <<storage, heap, cache, proxyConfigCache, platform, badge, hist>>

\* the request settled before the timer: clearTimeout, then lines 249-277
TestSettled(h) ==
    /\ task[h].pc = "test_fetch"
    /\ \E outcome \in {"ok", "opaque", "http", "reject"} :
        LET t == [task[h] EXCEPT !.timer = "cleared"] IN
        task' = [task EXCEPT ![h] =
            CASE outcome \in {"ok", "opaque"} ->
                    Respond(t, TRUE, NULL, [status |-> "success"])
              [] outcome = "http" -> Respond(t, FALSE, "HTTP 500 Server Error", NULL)
              [] OTHER -> Respond(t, FALSE, "Connection failed: Failed to fetch", NULL)]
    /\ UNCHANGED <<storage, heap, cache, proxyConfigCache, platform, badge, hist>>

\* the aborted request rejected: the catch block at lines 264-272; clearTimeout does
\* nothing to the timer that has fired
TestAborted(h) ==
    /\ task[h].pc = "test_aborted"
    /\ task' = [task EXCEPT ![h] = Respond(@, FALSE, "Connection timeout (>10000ms)", NULL)]
    /\ UNCHANGED <<storage, heap, cache, proxyConfigCache, platform, badge, hist>>

(* chrome.runtime.onInstalled: service-worker.js 59-63 over initializeStorage, *)
(* part_001 781-793                                                          *)

\* the event starts the service worker anew: its module state is empty, and
\* initializeStorage issues the read of getProxyConfigs
InstalledStart(h) ==
    /\ Begin(h, "INSTALLED", "sw")
    /\ LET c == [cache EXCEPT !["sw"] = [configsCache |-> NoRef, cacheValid |-> FALSE]]
           r == CHOOSE q \in Refs : q \notin Live(c, task)
       IN  /\ cache' = c
           /\ task' = [task EXCEPT ![h] = [Started("INSTALLED", "sw", "inst_get") EXCEPT !.arr = r]]
           /\ heap' = Collect([heap EXCEPT ![r] = storage.proxyConfigs], cache', task')
    /\ proxyConfigCache' = clearConfigCache
    /\ hist' = Counted(hist, "INSTALLED")
    /\ UNCHANGED <<storage, platform, badge>>

\* updateBadge(null) issues setBadgeText('')
InstalledBadge(h, t, hs) ==
    \E ok \in OutcomesOf(hs) :
        /\ badge' = IF ok THEN [badge EXCEPT !.text = BADGE_TEXT.INACTIVE] ELSE badge
        /\ task' = [task EXCEPT ![h] =
                Logged([t EXCEPT !.pc = "inst_text", !.ok = ok], "badge.text", BADGE_TEXT.INACTIVE, ok)]
        /\ hist' = FaultOn(hs, ok)

\* if (configs.length === 0) the four keys are set to their defaults
InstalledGot(h) ==
    /\ task[h].pc = "inst_get"
    /\ cache' = Cached("sw", task[h].arr)
    /\ IF Len(heap[task[h].arr]) = 0
        THEN \E ok \in OutcomesOf(hist) :
             /\ storage' = IF ok THEN [proxyConfigs |-> <<>>, currentProxyId |-> NULL,
                                       statistics |-> StatsOf(0), settings |-> "default"]
                                 ELSE storage
             /\ task' = [task EXCEPT ![h] =
                    Logged([@ EXCEPT !.pc = "inst_set", !.ok = ok, !.arr = NoRef],
                           "storage.set", "defaults", ok)]
             /\ hist' = FaultOn(hist, ok)
             /\ badge' = badge
        ELSE /\ InstalledBadge(h, [task[h] EXCEPT !.arr = NoRef], hist)
             /\ storage' = storage
    /\ heap' = Collect(heap, cache', task')
    /\ UNCHANGED <<proxyConfigCache, platform>>

\* the set settled; a rejection ends the listener
InstalledSet(h) ==
    /\ task[h].pc = "inst_set"
    /\ IF task[h].ok
        THEN InstalledBadge(h, task[h], hist)
        ELSE /\ task' = [task EXCEPT ![h] = [@ EXCEPT !.pc = "done"]]
             /\ UNCHANGED <<badge, hist>>
    /\ UNCHANGED <<storage, heap, cache, proxyConfigCache, platform>>

InstalledText(h) ==
    /\ task[h].pc = "inst_text"
    /\ IF task[h].ok
        THEN \E ok \in OutcomesOf(hist) :
             /\ badge' = IF ok THEN [badge EXCEPT !.color = BADGE_COLORS.INACTIVE] ELSE badge
             /\ task' = [task EXCEPT ![h] =
                    Logged([@ EXCEPT !.pc = "done"], "badge.color", BADGE_COLORS.INACTIVE, ok)]
             /\ hist' = FaultOn(hist, ok)
        ELSE /\ task' = [task EXCEPT ![h] = [@ EXCEPT !.pc = "done"]]
             /\ UNCHANGED <<badge, hist>>
    /\ UNCHANGED <<storage, heap, cache, proxyConfigCache, platform>>

(* --------------------------- the whole program -------------------------- *)

\* as InitSaved, after the options page has exported or imported: its own instance
\* of storage.js holds the array it read (exportAllData, part_001 808-822)
InitSavedOpt ==
    /\ storage = [proxyConfigs |-> <<SavedConfig>>, currentProxyId |-> NULL,
                  statistics |-> StatsOf(0), settings |-> "default"]
    /\ platform = [mode |-> "system"]
    /\ badge = [text |-> BADGE_TEXT.INACTIVE, color |-> BADGE_COLORS.INACTIVE]
    /\ heap = [r \in Refs |-> IF r = 1 THEN <<SavedConfig>> ELSE <<>>]
    /\ cache = [x \in Contexts |->
                    IF x = "opt" THEN [configsCache |-> 1, cacheValid |-> TRUE]
                    ELSE [configsCache |-> NoRef, cacheValid |-> FALSE]]
    /\ hist.nextId = 2

\* one command at a time, every command of the program; any call may reject
InitFull ==
    /\ Limits(MaxCmds, 1, MaxFaults, MaxProxyFaults)
    /\ InitFresh \/ InitSaved \/ InitSavedOpt

NextFull ==
    \/ Next
    \/ \E h \in Slots :
        \/ StatusStart(h)
        \/ StatusCur(h)
        \/ StatusGot(h)
        \/ StatusCleared(h)
        \/ StatusText(h)
        \/ StatusColor(h)
        \/ GetStatisticsStart(h)
        \/ GetStatisticsGot(h)
        \/ ClearStatisticsStart(h)
        \/ ClearStatisticsSet(h)
        \/ BadRequest(h)
        \/ UnknownMessage(h)
        \/ TestStart(h)
        \/ TestGot(h)
        \/ TestTimer(h)
        \/ TestSettled(h)
        \/ TestAborted(h)
        \/ InstalledStart(h)
        \/ InstalledGot(h)
        \/ InstalledSet(h)
        \/ InstalledText(h)

SpecFull == InitFull /\ [][NextFull]_vars

\* after a configuration was saved and applied and the options page replaced the
\* collection by an imported file: the current-id names a configuration that is no
\* longer stored
InitOrphan ==
    /\ storage = [proxyConfigs |-> <<[id |-> ForeignId, name |-> <<"x">>, type |-> "http",
                                     host |-> <<"h">>, port |-> 0, bypassList |-> <<>>,
                                     pacScript |-> <<>>, lastUsed |-> NULL]>>,
                  currentProxyId |-> SavedConfig.id,
                  statistics |-> StatsOf(1), settings |-> "imported"]
    /\ platform = formatProxyRules(SavedConfig)
    /\ badge = [text |-> BADGE_TEXT.ACTIVE, color |-> BADGE_COLORS.ACTIVE]
    /\ \E warm \in BOOLEAN :
        /\ heap = [r \in Refs |-> IF r = 1 THEN storage.proxyConfigs
                                  ELSE IF warm /\ r = 2 THEN <<SavedConfig>> ELSE <<>>]
        /\ cache = [x \in Contexts |->
                        IF x = "opt" THEN [configsCache |-> 1, cacheValid |-> TRUE]
                        ELSE IF warm THEN [configsCache |-> 2, cacheValid |-> TRUE]
                        ELSE [configsCache |-> NoRef, cacheValid |-> FALSE]]
    /\ hist.nextId = 2

\* one message from each of these states, any call of whose handler may reject; every
\* call a handler awaits settles, so a step that stays possible is taken
InitFair ==
    /\ Limits(MaxFairCmds, 1, MaxFaults, MaxProxyFaults)
    /\ InitFresh \/ InitSaved \/ InitSavedOpt \/ InitOrphan

SpecFair == InitFair /\ [][NextFull]_vars /\ WF_vars(NextFull)

(* ---- scripts/omega-parser.js and importData on any parsed JSON file ---- *)

\* A parsed JSON value carries a tag: "null", "string" (any primitive) or "object".
\* A file is [tag, configs, settings, schemaVersion, entries]: configs is <<>> (no
\* such array) or <<array>>, entries are its other keys in order, each a key
\* [prefix, name] with its value.  A profile is [tag, profileType, host, port,
\* fallbackProxy, bypassList, pacScript], a bypass condition [tag, conditionType,
\* pattern]; an absent field is <<>>, "" or 0.

\* isOmegaFormat looking at the keys before the configs array
isOmegaFormatKeysFirst(data) ==
    /\ data.tag = "object"
    /\ \/ \E i \in 1..Len(data.entries) : data.entries[i].key.prefix = "+"
       \/ /\ data.configs = <<>>
          /\ data.schemaVersion
          /\ \E i \in 1..Len(data.entries) : data.entries[i].key.prefix = "-"

\* isOmegaFormat (omega-parser.js 13-55)
isOmegaFormat(data) ==
    /\ data.tag = "object"
    /\ data.configs = <<>>
    /\ \/ \E i \in 1..Len(data.entries) : data.entries[i].key.prefix = "+"
       \/ /\ data.schemaVersion
          /\ \E i \in 1..Len(data.entries) : data.entries[i].key.prefix = "-"

\* convertBypassList (243-260) of an absent list (<<>>) or an array (<<array>>):
\* reading item.conditionType of a null member throws a TypeError
convertBypassList(omegaBypassList) ==
    IF omegaBypassList = <<>>
        THEN [threw |-> FALSE, list |-> DEFAULT_BYPASS_LIST]
    ELSE IF \E i \in 1..Len(omegaBypassList[1]) : omegaBypassList[1][i].tag = "null"
        THEN [threw |-> TRUE, list |-> <<>>]
    ELSE LET kept == SelectSeq(omegaBypassList[1],
                               LAMBDA item : /\ item.tag = "object"
                                             /\ item.conditionType = "BypassCondition"
                                             /\ item.pattern # <<>>) IN
         [threw |-> FALSE,
          list |-> IF kept = <<>> THEN DEFAULT_BYPASS_LIST
                   ELSE [i \in 1..Len(kept) |-> kept[i].pattern]]

\* convertFixedProfile (150-197): <<>> for null, <<config>> otherwise
convertFixedProfile(name, profile, uuid) ==
    IF \/ profile.fallbackProxy = <<>>
       \/ profile.fallbackProxy[1].host = <<>>
       \/ profile.fallbackProxy[1].port = 0
        THEN [threw |-> FALSE, config |-> <<>>]
    ELSE LET fallbackProxy == profile.fallbackProxy[1]
             bypass == convertBypassList(profile.bypassList)
         IN  IF bypass.threw THEN [threw |-> TRUE, config |-> <<>>]
             ELSE [threw |-> FALSE,
                   config |-> <<createProxyConfig(
                       [name |-> name,
                        type |-> IF fallbackProxy.scheme \in {"http", "https", "socks4", "socks5"}
                                    THEN fallbackProxy.scheme ELSE "http",
                        host |-> fallbackProxy.host, port |-> fallbackProxy.port,
                        bypassList |-> bypass.list, pacScript |-> <<>>], uuid)>>]

\* convertOmegaProfile (108-145) with convertPacProfile, convertDirectProfile and
\* convertSystemProfile (202-238), which pass no bypassList to createProxyConfig
convertOmegaProfile(name, profile, uuid) ==
    LET made(type, pacScript, default) ==
            [threw |-> FALSE,
             config |-> <<[createProxyConfig([name |-> IF name = <<>> THEN default ELSE name,
                                             type |-> type, host |-> <<>>,
                                             port |-> 0, bypassList |-> <<>>,
                                             pacScript |-> pacScript], uuid)
                           EXCEPT !.bypassList = DEFAULT_BYPASS_LIST]>>]
        none == [threw |-> FALSE, config |-> <<>>]
    IN  IF profile.tag # "object" THEN none
        ELSE CASE profile.profileType = "FixedProfile" -> convertFixedProfile(name, profile, uuid)
               [] profile.profileType = "PacProfile" ->
                      IF profile.pacScript = <<>> THEN none ELSE made("pac", profile.pacScript, <<>>)
               [] profile.profileType = "DirectProfile" -> made("direct", <<>>, <<"Direct">>)
               [] profile.profileType = "SystemProfile" -> made("auto_detect", <<>>, <<"System Proxy">>)
               [] OTHER -> none

\* parseOmegaBackup (62-100).  The profiles are collected in an object keyed by
\* name (lines 68-77) and Object.entries (line 82) lists an object's keys that
\* are array indices first, in ascending order, then the others as inserted.
\* ParsedIds are the ids crypto.randomUUID() gives the converted profiles.
parseOmegaBackup(omegaData) ==
    LET ParsedIds == <<"idP1", "idP2">>
        IsIndex(name) == /\ name # <<>>
                         /\ \A j \in 1..Len(name) : name[j] \in Digits
                         /\ Len(name) = 1 \/ name[1] # "0"
        found == SelectSeq(omegaData.entries,
                           LAMBDA e : /\ e.key.prefix = "+"
                                      /\ e.value.tag \in {"object", "null"})  \* typeof
        RECURSIVE Ascending(_)
        Ascending(list) ==
            IF list = <<>> THEN <<>>
            ELSE LET m == CHOOSE i \in 1..Len(list) : \A j \in 1..Len(list) :
                              ParseDigits(list[i].key.name) <= ParseDigits(list[j].key.name)
                 IN  <<list[m]>> \o Ascending(SubSeq(list, 1, m - 1)
                                              \o SubSeq(list, m + 1, Len(list)))
        profiles == Ascending(SelectSeq(found, LAMBDA e : IsIndex(e.key.name)))
                    \o SelectSeq(found, LAMBDA e : ~IsIndex(e.key.name))
        RECURSIVE Loop(_)
        Loop(i) ==
            IF i > Len(profiles) THEN [threw |-> FALSE, configs |-> <<>>]
            ELSE LET e == profiles[i]
                     rest == Loop(i + 1)
                     converted == convertOmegaProfile(e.key.name, e.value, ParsedIds[i])
                 IN  IF e.key.name \in {<<"ZeroOmega Conditions">>,
                                        <<"Proxy SwitchyOmega Conditions">>}
                         THEN rest
                     ELSE IF converted.threw \/ rest.threw
                         THEN [threw |-> TRUE, configs |-> <<>>]
                     ELSE [threw |-> FALSE, configs |-> converted.config \o rest.configs]
    IN  Loop(1)

\* detectAndConvertFormat (part_001 879-905): error is the message of what it throws
detectAndConvertFormat(data) ==
    IF data.tag = "null"                                  \* Object.keys(null)
        THEN [error |-> "Cannot convert undefined or null to object",
              isOmega |-> FALSE, configs |-> <<>>]
    ELSE IF isOmegaFormat(data)
        THEN IF parseOmegaBackup(data).threw
                THEN [error |-> "Cannot read properties of null (reading 'conditionType')",
                      isOmega |-> TRUE, configs |-> <<>>]
                ELSE [error |-> "", isOmega |-> TRUE,
                      configs |-> parseOmegaBackup(data).configs]
    ELSE IF data.tag = "object" /\ data.configs # <<>>
        THEN [error |-> "", isOmega |-> FALSE, configs |-> data.configs[1]]
    ELSE [error |-> "Invalid data format: Unable to detect format type",
          isOmega |-> FALSE, configs |-> <<>>]

\* the files a user may pick: null, a string, objects that are neither native nor
\* foreign, native files, and foreign backups of one good profile alone or next to
\* an odd one (a null profile, a profile without proxy, a PAC profile without
\* script, a profile of a type that is not converted, bypass lists with a null and
\* with a string member, a direct profile)
FileInputs ==
    LET NoValue == [tag |-> "null", profileType |-> "", host |-> <<>>, port |-> 0,
                    fallbackProxy |-> <<>>,
                    bypassList |-> <<>>, pacScript |-> <<>>]
        Profile(type, proxy, bypassList) ==
            [NoValue EXCEPT !.tag = "object", !.profileType = type, !.fallbackProxy = proxy,
                            !.bypassList = bypassList]
        Condition(tag) ==
            [tag |-> tag, conditionType |-> IF tag = "object" THEN "BypassCondition" ELSE "",
             pattern |-> IF tag = "object" THEN <<"p">> ELSE <<>>]
        Server == <<[host |-> <<"h">>, port |-> 8080, scheme |-> "socks5"]>>
        GoodProfile == Profile("FixedProfile", Server, <<>>)
        OddProfiles ==
            << NoValue, Profile("FixedProfile", <<>>, <<>>), Profile("PacProfile", <<>>, <<>>),
               Profile("SwitchProfile", <<>>, <<>>),
               Profile("FixedProfile", Server, << <<Condition("null"), Condition("object")>> >>),
               Profile("FixedProfile", Server, << <<Condition("string"), Condition("object")>> >>),
               Profile("DirectProfile", <<>>, <<>>) >>
        Entry(prefix, name, value) == [key |-> [prefix |-> prefix, name |-> name], value |-> value]
        File(tag, configs, schemaVersion, entries) ==
            [tag |-> tag, configs |-> configs, settings |-> configs # <<>>,
             schemaVersion |-> schemaVersion, entries |-> entries]
    IN
    << File("null", <<>>, FALSE, <<>>),
       File("string", <<>>, FALSE, <<>>),
       File("object", <<>>, FALSE, <<>>),
       File("object", <<>>, TRUE, <<Entry("", <<"k">>, [NoValue EXCEPT !.tag = "string"])>>),
       File("object", <<>>, TRUE, <<Entry("-", <<"k">>, [NoValue EXCEPT !.tag = "string"])>>),
       File("object", << <<>> >>, FALSE, <<>>),
       File("object", << <<[SavedConfig EXCEPT !.id = ForeignId]>> >>, FALSE, <<>>),
       File("object", <<>>, FALSE, <<Entry("+", <<"p">>, GoodProfile)>>) >>
    \o [i \in 1..Len(OddProfiles) |->
           File("object", <<>>, FALSE,
                <<Entry("+", <<"p">>, OddProfiles[i]), Entry("+", <<"q">>, GoodProfile)>>)]
    \o [i \in 1..Len(OddProfiles) |->
           File("object", <<>>, FALSE,
                <<Entry("+", <<"q">>, GoodProfile), Entry("+", <<"p">>, OddProfiles[i])>>)]

\* importData is called on a parsed file
ConvertStart(h) ==
    /\ Begin(h, "IMPORT", "opt")
    /\ \E i \in 1..Len(FileInputs) : \E merge \in BOOLEAN :
        /\ task' = [task EXCEPT ![h] =
            [Started("IMPORT", "opt", "conv_detect") EXCEPT !.data = FileInputs[i], !.merge = merge]]
        /\ hist' = Counted(hist, IF merge THEN "IMPORT" ELSE "IMPORT_REPLACE")
    /\ UNCHANGED <<storage, heap, cache, proxyConfigCache, platform, badge>>

\* detectAndConvertFormat returned or threw: importData lines 833-857
ConvertDetected(h) ==
    /\ task[h].pc = "conv_detect"
    /\ LET format == detectAndConvertFormat(task[h].data)
           t == [task[h] EXCEPT !.data = [configs |-> <<format.configs>>,
                                          settings |-> ~format.isOmega /\ task[h].data.settings]]
       IN
       IF format.error # ""
        THEN /\ task' = [task EXCEPT ![h] = Respond(task[h], FALSE, format.error, NULL)]
             /\ UNCHANGED <<storage, heap, cache, proxyConfigCache, platform, badge, hist>>
       ELSE IF format.configs = <<>>
        THEN /\ task' = [task EXCEPT ![h] =
                    Respond(task[h], FALSE, "No valid proxy configurations found", NULL)]
             /\ UNCHANGED <<storage, heap, cache, proxyConfigCache, platform, badge, hist>>
       ELSE IF ~t.merge THEN ImportWrite(h, t, format.configs, cache, hist)
       ELSE IF CacheHit("opt")
        THEN ImportMerge(h, [t EXCEPT !.arr = cache["opt"].configsCache], cache)
       ELSE ReadConfigs(h, t, "imp_get", hist)

\* the options page imports files, one after the other; storage calls may reject
InitImport ==
    /\ Limits(MaxCmds, 1, MaxFaults, 0)
    /\ InitFresh \/ InitSaved \/ InitSavedOpt

NextImport ==
    \E h \in Slots :
        \/ ConvertStart(h)
        \/ ConvertDetected(h)
        \/ ImportGot(h)
        \/ ImportSet(h)
        \/ ImportSettings(h)
        \/ Retire(h)

SpecImport == InitImport /\ [][NextImport]_vars

(* the commands that use or invalidate proxyConfigCache (service-worker.js 35-56): *)
(* APPLY_PROXY and the three mutating commands, interleaving, no call rejecting  *)

InitCache ==
    /\ Limits(MaxCacheCmds, MaxInFlight, 0, 0)
    /\ InitSaved

NextCache ==
    \E h \in Slots :
        \/ SaveStart(h)
        \/ SaveGot(h)
        \/ SaveSet(h)
        \/ DeleteStart(h)
        \/ DeleteGot(h)
        \/ DeleteSet(h)
        \/ DeleteCur(h)
        \/ DeleteCleared(h)
        \/ ApplyStart(h)
        \/ ApplyGot(h)
        \/ ApplySet(h)
        \/ CommitCur(h)
        \/ CommitStatsGot(h)
        \/ CommitStats(h)
        \/ CommitBadgeText(h)
        \/ CommitBadgeColor(h)
        \/ UpdateStart(h)
        \/ UpdateGot(h)
        \/ UpdateSet(h)
        \/ UpdateCur(h)
        \/ Retire(h)

SpecCache == InitCache /\ [][NextCache]_vars

(* ---- the pure functions of scripts/proxy-manager.js, called on their own ---- *)
(* One call: its argument is task[1].data, the object the argument refers to  *)
(* after the call is task[1].config, the value returned (or the error thrown) *)
(* is the answer.                                                              *)

\* configurations as a caller may pass them: typed in the form, or read from an
\* imported file
ConfigInputs ==
    LET Valid == <<"function", " ", "FindProxyForURL", "(", ")", "{", "}">> IN
    [name : {<<"a">>, <<" ", "a">>, <<>>, <<" ">>, [i \in 1..(MAX_PROXY_NAME_LENGTH + 1) |-> "a"]},
     type : PROXY_TYPES \cup {"", "ftp"},
     host : {<<"h">>, <<" ", "h", " ">>, <<>>, <<"1", "0", ".", "0", ".", "0", ".", "1">>,
             <<"-", "h">>},
     port : {-1, 0, PORT_MIN, 3128, PORT_MAX, PORT_MAX + 1},
     bypassList : {<<>>, << <<"a">> >>, << <<" ", "a">>, <<" ">> >>, <<NotAString>>,
                   [i \in 1..MAX_BYPASS_ENTRIES |-> <<"a">>],
                   [i \in 1..(MAX_BYPASS_ENTRIES + 1) |-> <<"a">>]},
     pacScript : {<<>>, <<" ">>, Valid, <<" ">> \o Valid \o <<" ">>,
                  Valid \o <<"/*...*/">>, Valid \o <<"/*...*/", "x">>,
                  <<"function", " ", "f", "(", ")", "{", "}">>,
                  <<"FindProxyForURL", "(", ")", "{", "}">>,
                  Valid \o <<"{">>, Valid \o <<"<script>">>, Valid \o <<"</script>">>}]

\* arguments of generateBypassList
DomainInputs ==
    {[kind |-> k, str |-> <<>>, arr |-> <<>>] : k \in {"absent", "other"}}
    \cup {[kind |-> "string", str |-> u, arr |-> <<>>] :
            u \in {<<>>, <<",", " ", ",">>, <<" ">>, <<"a">>, <<" ", "a", " ", ",", "b">>,
                   <<"a", ",", ",", "b">>, <<"b", ",", "a", ",", "b">>}}
    \cup {ArrayOf(l) :
            l \in {<<>>, << <<" ">>, <<>> >>, << <<"a">> >>, << <<" ", "a">> >>,
                   << <<"b">>, <<"a">>, <<"b">> >>, << <<"a">>, <<>>, <<"b">> >>,
                   << <<"a">>, NotAString >>}}

\* bypass lists of stored configurations, as showEditForm finds them
ListInputs ==
    {<<>>, << <<"a">> >>, << <<"a">>, <<"b">> >>, << <<"b">>, <<"a">>, <<"b">> >>,
     << <<"a", " ", "b">>, <<"c">> >>, << <<"a", ",", "b">> >>,
     [i \in 1..MAX_BYPASS_ENTRIES |-> <<"a">>]}

\* parsed JSON files as isOmegaFormat and parseOmegaBackup may be given them:
\* null, a string, and objects with or without a configs array and a
\* schemaVersion, holding no, one or two more keys.  A lone key is a profile
\* name with any profile of Profiles; two keys carry profiles of Few.
BlobInputs ==
    LET NoValue == [tag |-> "null", profileType |-> "", host |-> <<>>, port |-> 0,
                    fallbackProxy |-> <<>>, bypassList |-> <<>>, pacScript |-> <<>>]
        Typed(type) == [NoValue EXCEPT !.tag = "object", !.profileType = type]
        Condition(type, pattern) ==
            [tag |-> "object", conditionType |-> type, pattern |-> pattern]
        Bypass(pattern) == Condition("BypassCondition", pattern)
        Servers == {<<>>} \cup
                   {<<[host |-> host, port |-> port, scheme |-> scheme]>> :
                        host \in {<<>>, <<"proxy.example.com">>, <<" ", "h">>},
                        port \in {0, 8080},
                        scheme \in {"http", "https", "socks4", "socks5", "SOCKS5", "ftp", ""}}
        BypassLists ==
            {<<>>, << <<>> >>, << <<Bypass(<<"*.local">>)>> >>,
             << <<Bypass(<<"b">>), Condition("HostWildcardCondition", <<"x">>),
                  Bypass(<<"a">>), Bypass(<<"b">>)>> >>,
             << <<Bypass(<<>>)>> >>, << <<Condition("HostWildcardCondition", <<"x">>)>> >>,
             << <<Bypass(<<"a">>), Bypass(<<"<", "local", ">">>)>> >>,
             << <<Bypass(<<" ">>)>> >>,
             << <<[tag |-> "null", conditionType |-> "", pattern |-> <<>>]>> >>}
        Fixed == {[Typed("FixedProfile") EXCEPT !.host = flat[1], !.port = flat[2],
                                                !.fallbackProxy = server, !.bypassList = list] :
                      flat \in {<< <<>>, 0 >>, << <<"flat">>, 3128 >>},
                      server \in Servers, list \in BypassLists}
        Script == <<"function", " ", "FindProxyForURL", "(", ")", "{", "}">>
        Others == {NoValue, [NoValue EXCEPT !.tag = "string"],
                   Typed("PacProfile"), [Typed("PacProfile") EXCEPT !.pacScript = Script],
                   Typed("DirectProfile"), Typed("SystemProfile"), Typed("SwitchProfile"),
                   Typed("VirtualProfile"), Typed("RuleListProfile"), Typed("")}
        Profiles == Fixed \cup Others
        Good == [Typed("FixedProfile") EXCEPT
                    !.fallbackProxy = <<[host |-> <<"h">>, port |-> 8080, scheme |-> "http"]>>]
        Few == Others \cup
               {Good, [Good EXCEPT !.fallbackProxy = <<>>],
                [Good EXCEPT !.fallbackProxy[1].host = <<>>],
                [Good EXCEPT !.fallbackProxy[1].port = 0],
                [Good EXCEPT !.bypassList =
                    << <<[tag |-> "null", conditionType |-> "", pattern |-> <<>>]>> >>]}
        Entry(prefix, name, value) == [key |-> [prefix |-> prefix, name |-> name], value |-> value]
        Names == {<<"Work">>, <<"<", "b", ">">>, <<" ", "p">>, <<>>,
                  <<"ZeroOmega Conditions">>, <<"Proxy SwitchyOmega Conditions">>}
        Lone == {<<Entry("+", name, value)>> : name \in Names, value \in Profiles}
        Two == {<<Entry(pre[1], names[1], first), Entry(pre[2], names[2], second)>> :
                    pre \in {"+", "-", ""} \X {"+", "-", ""},
                    names \in {<< <<"p">>, <<"q">> >>, << <<"2">>, <<"1">> >>,
                               << <<"ZeroOmega Conditions">>, <<"q">> >>},
                    first \in Few, second \in {Good, Typed("SwitchProfile")}}
              \cup {<<Entry("+", <<"p">>, Good), Entry("+", <<"q">>, second)>> : second \in Few}
        File(tag, configs, schemaVersion, entries) ==
            [tag |-> tag, configs |-> configs, settings |-> FALSE,
             schemaVersion |-> schemaVersion, entries |-> entries]
    IN  {File("null", <<>>, FALSE, <<>>), File("string", <<>>, FALSE, <<>>)}
        \cup {File("object", <<>>, FALSE, entries) : entries \in Lone}
        \cup {File("object", configs, schemaVersion, entries) :
                  configs \in {<<>>, << <<>> >>, << <<SavedConfig>> >>},
                  schemaVersion \in BOOLEAN,
                  entries \in {<<>>} \cup Two \cup
                      {<<Entry(prefix, <<"k">>, value)>> :
                           prefix \in {"+", "-", ""}, value \in {Good, NoValue}}}

InitPure ==
    /\ hist = [nextId |-> 1, cmds |-> 0, faults |-> 0, proxyFaults |-> 0, started |-> {},
               removed |-> {}, maxCmds |-> 0, slots |-> 0, maxFaults |-> 0,
               maxProxyFaults |-> 0]
    /\ InitFresh
    /\ proxyConfigCache = clearConfigCache
    /\ LET Called(call) == task = [h \in Slots |-> IF h = 1 THEN call ELSE IdleTask] IN
       \/ \E f \in {"validateProxyConfig", "formatProxyRules"}, c \in ConfigInputs :
            Called([Started(f, "sw", "call") EXCEPT !.data = c])
       \/ \E d \in DomainInputs :
            Called([Started("generateBypassList", "sw", "call") EXCEPT !.data = d])
       \/ \E l \in ListInputs :
            Called([Started("showEditForm", "opt", "call") EXCEPT !.read = l])
       \/ \E d \in BlobInputs :
            \/ Called([Started("isOmegaFormat", "opt", "call") EXCEPT !.data = d])
            \/ /\ isOmegaFormat(d)
               /\ Called([Started("parseOmegaBackup", "opt", "call") EXCEPT !.data = d])

\* validateProxyConfig(config) returns its verdict; config.host has been assigned
Validate(h) ==
    /\ task[h].cmd = "validateProxyConfig" /\ task[h].pc = "call"
    /\ task' = [task EXCEPT ![h] =
            Respond([task[h] EXCEPT !.config = AfterValidate(task[h].data)], TRUE, NULL,
                    validateProxyConfig(task[h].data))]
    /\ UNCHANGED <<storage, heap, cache, proxyConfigCache, platform, badge, hist>>

\* formatProxyRules(config) returns the directive or throws
Format(h) ==
    /\ task[h].cmd = "formatProxyRules" /\ task[h].pc = "call"
    /\ LET config == task[h].data IN
       task' = [task EXCEPT ![h] =
            IF FormatThrows(config)
                THEN Respond(@, FALSE,
                             CASE config.type = "" -> "Invalid proxy configuration"
                               [] config.type = "pac" -> "PAC script is required"
                               [] config.host = <<>> \/ config.port = 0 ->
                                      "Host and port are required"
                               [] OTHER -> "d.trim is not a function",
                             NULL)
                ELSE Respond(@, TRUE, NULL, formatProxyRules(config))]
    /\ UNCHANGED <<storage, heap, cache, proxyConfigCache, platform, badge, hist>>

\* generateBypassList(domains) returns the list or throws
Normalize(h) ==
    /\ task[h].cmd = "generateBypassList" /\ task[h].pc = "call"
    /\ LET r == generateBypassList(task[h].data) IN
       task' = [task EXCEPT ![h] =
            IF r.threw THEN Respond(@, FALSE, "d.trim is not a function", NULL)
                       ELSE Respond(@, TRUE, NULL, r.list)]
    /\ UNCHANGED <<storage, heap, cache, proxyConfigCache, platform, badge, hist>>

\* showEditForm: bypassListField.value = config.bypassList.join(', '); the field's
\* text is what the normalizer is then given
ShowEditForm(h) ==
    /\ task[h].cmd = "showEditForm" /\ task[h].pc = "call"
    /\ task' = [task EXCEPT ![h] =
            [@ EXCEPT !.cmd = "generateBypassList",
                      !.data = [kind |-> "string", str |-> Join(task[h].read), arr |-> <<>>]]]
    /\ UNCHANGED <<storage, heap, cache, proxyConfigCache, platform, badge, hist>>

\* isOmegaFormat(data) returns true or false
Detect(h) ==
    /\ task[h].cmd = "isOmegaFormat" /\ task[h].pc = "call"
    /\ task' = [task EXCEPT ![h] = Respond(@, TRUE, NULL, isOmegaFormat(task[h].data))]
    /\ UNCHANGED <<storage, heap, cache, proxyConfigCache, platform, badge, hist>>

\* parseOmegaBackup(omegaData), as detectAndConvertFormat calls it on a file that
\* isOmegaFormat accepted, returns the configurations or throws
Parse(h) ==
    /\ task[h].cmd = "parseOmegaBackup" /\ task[h].pc = "call"
    /\ LET r == parseOmegaBackup(task[h].data) IN
       task' = [task EXCEPT ![h] =
            IF r.threw
                THEN Respond(@, FALSE, "Cannot read properties of null (reading 'conditionType')",
                             NULL)
                ELSE Respond(@, TRUE, NULL, r.configs)]
    /\ UNCHANGED <<storage, heap, cache, proxyConfigCache, platform, badge, hist>>

NextPure ==
    \E h \in Slots :
        \/ Validate(h)
        \/ Format(h)
        \/ Normalize(h)
        \/ ShowEditForm(h)
        \/ Detect(h)
        \/ Parse(h)

SpecPure == InitPure /\ [][NextPure]_vars

(* ------------------------------ properties ------------------------------ *)
EventsOf(L, op) == {i \in 1..Len(L) : L[i].op = op}

\* the handler of slot h is running applyProxyConfig, directly or inside UPDATE_CONFIG
Applying(t) == t.cmd = "APPLY_PROXY" \/ t.nested

\* nothing of the handler in slot h is pending
Settled(h) ==
    /\ task[h].pc \in {"idle", "done"}
    /\ \A k \in {"cur", "stats", "badge"} : task[h].sub[k] \in {"none", "ok", "fail"}

ActiveBadge == [text |-> BADGE_TEXT.ACTIVE, color |-> BADGE_COLORS.ACTIVE]
InactiveBadge == [text |-> BADGE_TEXT.INACTIVE, color |-> BADGE_COLORS.INACTIVE]
ErrorBadge == [text |-> BADGE_TEXT.ERROR, color |-> BADGE_COLORS.ERROR]

\* C1: whenever no command is in flight, the current-id is null or the id of a
\* configuration in the stored collection (stated here for the behaviours in which
\* importData was never asked to replace the collection).
C1_CurrentIdInCollection ==
    (Quiescent /\ "IMPORT_REPLACE" \notin hist.started)
        => \/ storage.currentProxyId = NULL
           \/ storage.currentProxyId \in Ids(storage.proxyConfigs)

\* C2: command handlers run one at a time: while a handler of the service worker has
\* an awaited call outstanding, no other handler has started.
C2_OneHandlerAtATime ==
    Cardinality({h \in Slots : task[h].ctx = "sw" /\ task[h].pc \notin {"idle", "done"}}) <= 1

\* C3: once every SAVE_CONFIG, UPDATE_CONFIG and DELETE_CONFIG issued has completed,
\* the stored collection holds every configuration whose SAVE_CONFIG reported
\* success and that no DELETE_CONFIG removed (no import took part).
C3_NoLostSave ==
    ((\A h \in Slots : Settled(h)) /\ hist.started \subseteq {"SAVE_CONFIG", "UPDATE_CONFIG", "DELETE_CONFIG"})
        => \A h \in Slots :
               (task[h].cmd = "SAVE_CONFIG" /\ task[h].resp.success /\ task[h].id \notin hist.removed)
                   => task[h].id \in Ids(storage.proxyConfigs)

\* C4: after an import made by the options page has completed, a GET_CONFIGS the
\* service worker answers from its populated cache, with nothing else in flight,
\* returns the stored collection.
C4_FreshAcrossContexts ==
    [][\A h \in Slots :
          (/\ task[h].cmd = "idle"
           /\ task'[h].cmd = "GET_CONFIGS"
           /\ task'[h].pc = "done"
           /\ CacheHit("sw")
           /\ hist.started \subseteq {"IMPORT", "GET_CONFIGS"}
           /\ \A g \in Slots : Settled(g))
              => task'[h].resp.data = <<storage.proxyConfigs>>]_vars

\* the calls by which applyProxyConfig commits: setCurrentProxyId(configId) and
\* updateStatistics(configId)
CommitEvents(L) ==
    {i \in 1..Len(L) : \/ L[i].op \in {"getStatistics", "updateStatistics"}
                       \/ L[i].op = "setCurrentProxyId" /\ L[i].arg # NULL}

\* C5: within one applyProxyConfig run the steps come in the order resolve,
\* validate, format, platform set, commit: a configuration is validated only once
\* resolved, formatted only once accepted by validateProxyConfig, the platform is
\* only ever given formatProxyRules of that configuration, and the current-id and
\* the statistics are written only after a platform set succeeded.
C5_ApplyOrdering ==
    \A h \in Slots :
        LET L == task[h].log IN
        /\ \A i \in EventsOf(L, "validate") :
               \E j \in 1..(i - 1) :
                   L[j].op = "resolve" /\ L[j].ok /\ L[j].arg = task[h].id /\ L[i].arg.id = task[h].id
        /\ \A i \in EventsOf(L, "format") :
               \E j \in 1..(i - 1) :
                   /\ L[j].op = "validate" /\ L[j].ok
                   /\ validateProxyConfig(L[j].arg).valid
                   /\ L[i].arg = AfterValidate(L[j].arg)
        /\ \A i \in EventsOf(L, "proxy.set") :
               \E j \in 1..(i - 1) :
                   L[j].op = "format" /\ L[j].ok /\ L[i].arg = formatProxyRules(L[j].arg)
        /\ \A i \in CommitEvents(L) :
               \E j \in 1..(i - 1) : L[j].op = "proxy.set" /\ L[j].ok

\* an apply went all the way: the statistics were written after the platform set
C5_Witness ==
    \E h \in Slots : \E i \in EventsOf(task[h].log, "updateStatistics") : task[h].log[i].ok

\* C6: an apply that fails at resolve or at validate makes no platform call and
\* leaves the current-id, the statistics and the stored collection as they were; it
\* reports "Configuration not found", respectively the validator's reason.
C6_RejectedApplyTouchesNothing ==
    [][\A h \in Slots :
          LET L == task'[h].log IN
          (task'[h] # task[h] /\ Applying(task'[h]) /\ EventsOf(L, "format") = {})
              => /\ storage' = storage
                 /\ platform' = platform
                 /\ EventsOf(L, "proxy.set") = {}
                 /\ task'[h].pc = "done" =>
                        LET r == L[Len(L)]
                            v == EventsOf(L, "validate")
                        IN  /\ r.op = "apply.return" /\ ~r.ok
                            /\ r.arg = IF v = {} THEN "Configuration not found"
                                       ELSE validateProxyConfig(L[CHOOSE i \in v : TRUE].arg).error
                            /\ task'[h].cmd = "APPLY_PROXY" =>
                                   ~task'[h].resp.success /\ task'[h].resp.error = r.arg]_vars

\* an APPLY_PROXY of a stored configuration the validator rejects has been answered
C6_Witness ==
    \E h \in Slots :
        /\ task[h].cmd = "APPLY_PROXY" /\ task[h].pc = "done"
        /\ \E i \in EventsOf(task[h].log, "validate") : ~task[h].log[i].ok

\* C7: the platform set of one apply is attempted at most MAX_RETRY_ATTEMPTS (3)
\* times, each attempt but the first after a failed one and a delay of k x 1000 ms
\* (k the number of the failed attempt), with no delay after the last; when all
\* fail the apply fails with the last platform error and writes neither the
\* current-id nor the statistics.
C7_BoundedRetry ==
    \A h \in Slots :
        LET L == task[h].log
            P == EventsOf(L, "proxy.set")
        IN
        /\ Cardinality(P) <= 3
        /\ \A i \in P :
               LET k == Cardinality({j \in P : j <= i}) IN
               /\ k > 1 => /\ L[i - 1] = Event("sleep", (k - 1) * 1000, TRUE)
                           /\ L[i - 2].op = "proxy.set" /\ ~L[i - 2].ok
                           /\ L[i].arg = L[i - 2].arg
               /\ (i < Len(L) /\ L[i + 1].op = "sleep") => ~L[i].ok /\ k < 3
               /\ (i < Len(L) /\ ~L[i].ok /\ k < 3) => L[i + 1].op = "sleep"
        /\ \A i \in EventsOf(L, "sleep") : i > 1 /\ L[i - 1].op = "proxy.set"
        /\ (Cardinality(P) = 3 /\ \A i \in P : ~L[i].ok) =>
               /\ CommitEvents(L) = {}
               /\ task[h].pc = "done" =>
                      /\ L[Len(L)] = Event("apply.return", PlatformError(3), FALSE)
                      /\ task[h].cmd = "APPLY_PROXY" =>
                             ~task[h].resp.success /\ task[h].resp.error = PlatformError(3)

\* an apply has given up after three rejected platform sets
C7_Witness ==
    \E h \in Slots :
        /\ task[h].pc = "done"
        /\ Cardinality(EventsOf(task[h].log, "proxy.set")) = 3
        /\ \A i \in EventsOf(task[h].log, "proxy.set") : ~task[h].log[i].ok

\* C8: when an apply has reported failure because its platform set failed or a
\* commit step threw, then once every badge call it issued has settled, and none of
\* them was rejected, the badge shows '!' in the error color.
C8_ErrorBadgeAfterFailedApply ==
    \A h \in Slots :
        LET L == task[h].log IN
        (/\ Applying(task[h]) /\ task[h].pc = "done"
         /\ task[h].sub.badge \in {"none", "ok"}
         /\ L[Len(L)].op = "apply.return" /\ ~L[Len(L)].ok
         /\ EventsOf(L, "proxy.set") # {}
         /\ \A i \in EventsOf(L, "badge.text") \cup EventsOf(L, "badge.color") : L[i].ok)
            => badge = ErrorBadge

\* C9: at the moment an APPLY_PROXY for id reports success with no other command in
\* flight, the current-id is id, the connections counter of id is one more than
\* when the apply began, the badge is active and the platform holds
\* formatProxyRules of the stored configuration id.
C9_CommitPostcondition ==
    [][\A h \in Slots :
          (/\ task[h].pc # "done" /\ task'[h].pc = "done"
           /\ task'[h].cmd = "APPLY_PROXY" /\ task'[h].resp.success
           /\ \A g \in Slots \ {h} : Settled(g))
              => /\ storage'.currentProxyId = task'[h].id
                 /\ storage'.statistics[task'[h].id] = task'[h].before + 1
                 /\ badge' = ActiveBadge
                 /\ task'[h].id \in Ids(storage'.proxyConfigs)
                 /\ platform' = formatProxyRules(Find(storage'.proxyConfigs, task'[h].id))]_vars

\* C10 as stated: once clearProxy's platform clear has succeeded and the command
\* has been answered, the current-id is null and the badge is inactive.
C10_ClearedMeansNull ==
    \A h \in Slots :
        (task[h].cmd = "DISABLE_PROXY" /\ task[h].pc = "done" /\ task[h].log[1].ok)
            => storage.currentProxyId = NULL /\ badge = InactiveBadge

\* C10, amended: clearProxy calls the platform clear once, first and never again.
\* If it fails the command reports failure and calls nothing else, so current-id and
\* badge stay as they were.  If it succeeds, setCurrentProxyId(null) follows: when
\* that write succeeds the current-id is null, the badge text and then the badge
\* color are set to the inactive presentation (each takes effect unless its call is
\* rejected) and the command reports success; when the write is rejected the
\* command reports failure and leaves current-id and badge unchanged, after the
\* platform proxy has been cleared.
C10_ClearProxy ==
    [][\A h \in Slots :
          LET L == task'[h].log
              n == Len(L)
              new == Len(task[h].log) < n
              done == task'[h].pc = "done"
          IN
          (task'[h] # task[h] /\ task'[h].cmd = "DISABLE_PROXY")
              => /\ EventsOf(L, "proxy.clear") = {1} /\ L[1].arg = "regular"
                 /\ EventsOf(L, "proxy.set") = {}
                 /\ ~L[1].ok =>
                        /\ n = 1 /\ storage' = storage /\ badge' = badge /\ platform' = platform
                        /\ done => ~task'[h].resp.success
                 /\ n >= 2 =>
                        /\ L[1].ok /\ L[2].op = "setCurrentProxyId" /\ L[2].arg = NULL
                        /\ (new /\ n = 2) =>
                               storage'.currentProxyId = IF L[2].ok THEN NULL
                                                         ELSE storage.currentProxyId
                        /\ ~L[2].ok =>
                               /\ n = 2 /\ badge' = badge
                               /\ done => ~task'[h].resp.success
                 /\ n >= 3 =>
                        /\ L[2].ok /\ L[3].op = "badge.text" /\ L[3].arg = BADGE_TEXT.INACTIVE
                        /\ (new /\ n = 3 /\ L[3].ok) => badge'.text = BADGE_TEXT.INACTIVE
                 /\ n >= 4 =>
                        /\ n = 4 /\ L[3].ok
                        /\ L[4].op = "badge.color" /\ L[4].arg = BADGE_COLORS.INACTIVE
                        /\ (new /\ L[4].ok) => badge'.color = BADGE_COLORS.INACTIVE
                 /\ (done /\ L[1].ok /\ n >= 2 /\ L[2].ok) => task'[h].resp.success
                 /\ (done /\ task'[h].resp.success) => n >= 3
                 /\ (done /\ n = 3) => ~L[3].ok]_vars

\* the platform was cleared, the write of the current-id was rejected and the
\* command has reported the failure
C10_Witness ==
    \E h \in Slots :
        /\ task[h].cmd = "DISABLE_PROXY" /\ task[h].pc = "done"
        /\ Len(task[h].log) = 2 /\ task[h].log[1].ok /\ ~task[h].log[2].ok
        /\ ~task[h].resp.success
        /\ platform = [mode |-> "cleared", scope |-> "regular"]
        /\ storage.currentProxyId # NULL

\* C11: when GET_STATUS has answered and no call was rejected: if the current-id it
\* read names a configuration absent from the stored collection, the current-id is
\* null, the badge is inactive and the answer is success with isActive = false and
\* proxy = null; if it names a stored configuration, the answer is isActive = true
\* with that configuration and the current-id is as it was.
C11_StatusSelfHeal ==
    \A h \in Slots :
        (task[h].cmd = "GET_STATUS" /\ task[h].pc = "done" /\ task[h].id # NULL
            /\ hist.faults = 0) =>
            IF task[h].id \in Ids(storage.proxyConfigs)
                THEN /\ task[h].resp.success
                     /\ task[h].resp.data = <<ActiveStatus(Find(storage.proxyConfigs, task[h].id))>>
                     /\ storage.currentProxyId = task[h].id
                ELSE /\ storage.currentProxyId = NULL
                     /\ badge = InactiveBadge
                     /\ task[h].resp.success
                     /\ task[h].resp.data = <<InactiveStatus>>

\* the commands that arrive as messages of the service worker
Message(t) == t.cmd \notin {"idle", "IMPORT", "INSTALLED"}

\* {success: true, data} or {success: false, error}
Envelope(resp) ==
    /\ resp.success \in BOOLEAN
    /\ resp.success => resp.error = NULL /\ Len(resp.data) = 1
    /\ ~resp.success => resp.error # NULL /\ resp.data = <<>>

\* C12: every message of the service worker, whichever calls reject, is eventually
\* answered; a handler that has finished has answered, the answer is never replaced
\* by another one, it is an envelope {success: true, data} or {success: false, error},
\* and a message of unknown type is answered with failure 'Unknown message type'.
C12_ExactlyOneEnvelope ==
    /\ [](\A h \in Slots : Message(task[h]) =>
            /\ task[h].pc = "done" => task[h].resp.sent
            /\ task[h].resp.sent => Envelope(task[h].resp)
            /\ (task[h].cmd = "UNKNOWN" /\ task[h].resp.sent) =>
                    (~task[h].resp.success /\ task[h].resp.error = "Unknown message type"))
    /\ [][\A h \in Slots : (Message(task[h]) /\ task[h].resp.sent) =>
            (task'[h].resp = task[h].resp \/ task'[h] = IdleTask)]_vars
    /\ \A h \in Slots : Message(task[h]) ~> task[h].resp.sent

\* a message one of whose storage calls was rejected has been answered
C12_Witness ==
    /\ hist.faults > 0
    /\ \E h \in Slots : /\ Message(task[h]) /\ task[h].resp.sent
                         /\ task[h].resp.error = "storage error"

\* C13: in every step of a DELETE_CONFIG handler, no call having been rejected and
\* the collection never having been replaced by an import: when
\* it writes the collection, the id is stored and the collection written is the
\* stored one without exactly that entry, the others in their order; when it answers
\* 'Configuration not found', the id is not stored and storage is as it was; when it
\* answers success, the current-id is not the deleted id.
C13_DeleteRemovesExactlyOne ==
    [][\A h \in Slots :
        (task'[h].cmd = "DELETE_CONFIG" /\ task'[h] # task[h] /\ hist'.faults = 0
            /\ "IMPORT_REPLACE" \notin hist'.started) =>
            /\ task'[h].pc = "del_set" =>
                    /\ task'[h].id \in Ids(storage.proxyConfigs)
                    /\ storage'.proxyConfigs = NotId(task'[h].id, storage.proxyConfigs)
                    /\ storage'.currentProxyId = storage.currentProxyId
            /\ (task'[h].pc = "done" /\ ~task'[h].resp.success) =>
                    /\ task'[h].id \notin Ids(storage.proxyConfigs)
                    /\ storage' = storage
            /\ (task'[h].pc = "done" /\ task'[h].resp.success) =>
                    storage'.currentProxyId # task'[h].id]_vars

\* C14: in every step of an UPDATE_CONFIG handler, no call having been rejected and
\* the collection never having been replaced by an import: when
\* it writes the collection, the id is stored and the collection written is the
\* stored one with the patch laid over that entry only, every other entry and the
\* order as they were; when it answers 'Configuration not found', the id is not
\* stored and the stored and the cached collection are as they were.
C14_UpdateOverlaysOne ==
    [][\A h \in Slots :
        (task'[h].cmd = "UPDATE_CONFIG" /\ task'[h] # task[h] /\ hist'.faults = 0
            /\ "IMPORT_REPLACE" \notin hist'.started) =>
            /\ task'[h].pc = "upd_set" =>
                    /\ task'[h].id \in Ids(storage.proxyConfigs)
                    /\ storage'.proxyConfigs =
                           [storage.proxyConfigs EXCEPT
                                ![FindIndex(storage.proxyConfigs, task'[h].id)] =
                                    Merged(@, task'[h].data)]
            /\ (task'[h].pc = "done" /\ task'[h].resp.error = "Configuration not found") =>
                    /\ task'[h].id \notin Ids(storage.proxyConfigs)
                    /\ storage' = storage
                    /\ CacheHit("sw") =>
                           heap'[cache'["sw"].configsCache] = heap[cache["sw"].configsCache]]_vars

\* C15: when importData writes the collection, no call having been rejected: with
\* merge = true the collection written is the stored one, every entry unchanged and
\* in place, followed by the imported configurations in their order, each under a
\* new id, all ids pairwise distinct; with merge = false it is exactly the imported
\* configurations.
C15_ImportMergesOrReplaces ==
    [][\A h \in Slots :
        (task'[h].cmd = "IMPORT" /\ task'[h].pc = "imp_set" /\ task[h].pc # "imp_set"
            /\ hist'.faults = 0) =>
            LET imported == task'[h].data.configs[1]
                old == storage.proxyConfigs
                new == storage'.proxyConfigs
            IN  IF task'[h].merge
                    THEN /\ Len(new) = Len(old) + Len(imported)
                         /\ SubSeq(new, 1, Len(old)) = old
                         /\ \A i \in 1..Len(imported) :
                                /\ new[Len(old) + i].id \notin Ids(old)
                                /\ new[Len(old) + i] =
                                       [imported[i] EXCEPT !.id = new[Len(old) + i].id]
                         /\ Cardinality(Ids(new)) = Len(new)
                    ELSE new = imported]_vars

\* a file that has no configs array and that isOmegaFormat does not accept
Unrecognized(data) == ~(data.tag = "object" /\ data.configs # <<>>) /\ ~isOmegaFormat(data)

\* importData has looked at the file in this step
Detected(h) == task[h].pc = "conv_detect" /\ task'[h].pc # "conv_detect"

\* C16: a file that is neither native nor foreign makes importData report a failure
\* with the unrecognized-format message, the stored collection, the settings and
\* the cache being left as they were.
C16_UnrecognizedMessage ==
    [][\A h \in Slots : (Detected(h) /\ Unrecognized(task[h].data)) =>
            /\ task'[h].resp.sent /\ ~task'[h].resp.success
            /\ task'[h].resp.error = "Invalid data format: Unable to detect format type"
            /\ storage' = storage /\ cache' = cache /\ heap' = heap]_vars

\* the profile under this key is converted when it is the only one of its backup
Convertible(e) ==
    /\ ~parseOmegaBackup([entries |-> <<e>>]).threw
    /\ parseOmegaBackup([entries |-> <<e>>]).configs # <<>>

\* C17: when importData has looked at a foreign backup of which at least one profile
\* is convertible, the import goes on (it is not aborted by another, malformed
\* profile) with exactly the convertible profiles converted, one configuration each.
C17_BestEffortConversion ==
    [][\A h \in Slots : (Detected(h) /\ isOmegaFormat(task[h].data)) =>
            LET entries == task[h].data.entries
                good == {i \in 1..Len(entries) : Convertible(entries[i])}
            IN  good # {} =>
                    /\ task'[h].pc # "done"
                    /\ Len(task'[h].data.configs[1]) = Cardinality(good)
                    /\ {task'[h].data.configs[1][k].name : k \in 1..Cardinality(good)}
                           = {entries[i].key.name : i \in good}]_vars

\* C18: every step of a TEST_CONNECTION handler leaves the stored collection, the
\* current-id, the statistics and the settings, the platform proxy setting and the
\* badge as they were, and the handler issues at most one HEAD request.
C18_TestIsReadOnly ==
    [][\A h \in Slots : (task'[h].cmd = "TEST_CONNECTION" /\ task'[h] # task[h]) =>
            /\ storage' = storage
            /\ platform' = platform
            /\ badge' = badge
            /\ Cardinality(EventsOf(task'[h].log, "fetch")) <= 1
            /\ Len(task'[h].log) = Cardinality(EventsOf(task'[h].log, "fetch"))]_vars

\* a test of the configuration in force has issued its request and reported success
C18_Witness ==
    \E h \in Slots :
        /\ task[h].cmd = "TEST_CONNECTION" /\ task[h].resp.sent /\ task[h].resp.success
        /\ Cardinality(EventsOf(task[h].log, "fetch")) = 1
        /\ storage.currentProxyId = task[h].id

\* C19: in a connection test, once the timer has fired the request is aborted and the
\* answer is the failure with the timeout message; a request that settled before the
\* timer has cancelled it and is answered with success, the HTTP failure or the
\* generic 'Connection failed: ...' message, never the timeout one; no timer is left
\* running when the test has answered, and the answer given is never changed.
C19_TimeoutOrSettled ==
    /\ [](\A h \in Slots : task[h].cmd = "TEST_CONNECTION" =>
            /\ task[h].timer = "fired" =>
                    /\ task[h].pc \in {"test_aborted", "done"}
                    /\ task[h].pc = "done" =>
                            /\ ~task[h].resp.success
                            /\ task[h].resp.error = "Connection timeout (>10000ms)"
            /\ (task[h].pc = "done" /\ task[h].timer = "cleared") =>
                    \/ task[h].resp.success
                    \/ task[h].resp.error \in
                           {"HTTP 500 Server Error", "Connection failed: Failed to fetch"}
            /\ task[h].pc = "done" => task[h].timer # "armed")
    /\ [][\A h \in Slots : (task[h].cmd = "TEST_CONNECTION" /\ task[h].resp.sent) =>
            (task'[h].resp = task[h].resp \/ task'[h] = IdleTask)]_vars

\* a test has answered after its timer fired
C19_Witness ==
    \E h \in Slots :
        /\ task[h].cmd = "TEST_CONNECTION" /\ task[h].resp.sent
        /\ task[h].timer = "fired"

\* C20: the collection key is in storage in every state of the model (the first
\* installation wrote it and nothing removes it), so no step of the onInstalled
\* listener, initializeStorage included, changes the current-id, the settings or the
\* statistics, also when the stored collection is the empty array.
C20_InitializeOnlyWhenAbsent ==
    [][\A h \in Slots : (task'[h].cmd = "INSTALLED" /\ task'[h] # task[h]) =>
            /\ storage'.currentProxyId = storage.currentProxyId
            /\ storage'.settings = storage.settings
            /\ storage'.statistics = storage.statistics]_vars

\* the mutating commands
Mutating == {"SAVE_CONFIG", "UPDATE_CONFIG", "DELETE_CONFIG"}

\* C21: an APPLY_PROXY that starts when a mutating command has sent its success
\* response and no mutating command is still running, and that resolves its
\* configuration at once, resolves the stored configuration (with the host trimmed
\* by validateProxyConfig), or nothing if the id is not stored.
C21_ApplyResolvesStored ==
    [][\A h \in Slots :
          (/\ task[h].cmd = "idle"
           /\ task'[h].cmd = "APPLY_PROXY"
           /\ task'[h].pc # "apply_get"
           /\ \E g \in Slots : task[g].cmd \in Mutating /\ task[g].resp.sent /\ task[g].resp.success
           /\ \A g \in Slots : task[g].cmd \in Mutating => task[g].resp.sent)
              => LET stored == Find(storage.proxyConfigs, task'[h].id) IN
                 task'[h].config = IF stored = NoConfig THEN NoConfig ELSE AfterValidate(stored)]_vars

\* C22: no step lowers a counter of statistics.byProxy (no CLEAR_STATISTICS is among
\* the commands of this specification), and the write of updateStatistics for an id
\* leaves that id's counter one above the stored one, so that no increment recorded
\* by another apply is overwritten.
C22_StatisticsMonotonic ==
    [][/\ \A i \in AllIds : storage'.statistics[i] >= storage.statistics[i]
       /\ \A h \in Slots :
            (task[h].sub.stats = "get" /\ task'[h].sub.stats = "wait_ok")
                => storage'.statistics[task[h].id] = storage.statistics[task[h].id] + 1]_vars

\* C23: validateProxyConfig leaves the object it was given as it was.
C23_ValidateLeavesArgument ==
    \A h \in Slots :
        (task[h].cmd = "validateProxyConfig" /\ task[h].pc = "done")
            => task[h].config = task[h].data

\* a call of the pure function f has returned or thrown
Returned(h, f) == task[h].cmd = f /\ task[h].pc = "done"

ServerTypes == {"http", "https", "socks4", "socks5"}

PortInRange(config) == config.port >= PORT_MIN /\ config.port <= PORT_MAX

NameValid(config) ==
    Trim(config.name) # <<>> /\ StrLen(Trim(config.name)) <= MAX_PROXY_NAME_LENGTH

C25_DirectAlwaysValid ==
    \A h \in Slots :
        (Returned(h, "validateProxyConfig") /\ task[h].data.type \in {"direct", "auto_detect"})
            => task[h].resp.data = <<Verdict(TRUE, NULL)>>

\* C25: every DIRECT or AUTO_DETECT configuration whose name passes the name check
\* is valid, whatever its host, port, pacScript and bypass list.
C25_DirectValidWithName ==
    \A h \in Slots :
        (/\ Returned(h, "validateProxyConfig")
         /\ task[h].data.type \in {"direct", "auto_detect"}
         /\ NameValid(task[h].data))
            => task[h].resp.data = <<Verdict(TRUE, NULL)>>

C25_Witness ==
    \E h \in Slots :
        /\ Returned(h, "validateProxyConfig")
        /\ task[h].data.type = "direct"
        /\ task[h].data.host = <<"-", "h">>
        /\ task[h].data.port = 0
        /\ task[h].data.pacScript = <<"function", " ", "f", "(", ")", "{", "}">>
        /\ Len(task[h].data.bypassList) > MAX_BYPASS_ENTRIES
        /\ task[h].resp.data[1].valid

C27_FormatAccepted ==
    \A h \in Slots :
        (Returned(h, "formatProxyRules") /\ validateProxyConfig(task[h].data).valid)
            => LET config == task[h].data IN
               /\ task[h].resp.success
               /\ task[h].resp.data[1] =
                    CASE config.type = "direct" -> [mode |-> "direct", scope |-> "regular"]
                      [] config.type = "auto_detect" -> [mode |-> "auto_detect", scope |-> "regular"]
                      [] config.type = "pac" ->
                            [mode |-> "pac_script", pacScript |-> config.pacScript,
                             scope |-> "regular"]
                      [] OTHER ->
                            [mode |-> "fixed_servers", scheme |-> config.type,
                             host |-> Trim(config.host), port |-> config.port,
                             bypassList |-> generateBypassList(ArrayOf(config.bypassList)).list,
                             scope |-> "regular"]
               /\ (/\ config.type = "http"
                   /\ config.host = <<"1", "0", ".", "0", ".", "0", ".", "1">>
                   /\ config.port = 3128
                   /\ config.bypassList = <<>>)
                      => task[h].resp.data[1].bypassList = DEFAULT_BYPASS_LIST

\* the entries of a string or an array given to generateBypassList
EntriesOf(domains) ==
    IF domains.kind = "string" THEN Split(domains.str, ",") ELSE domains.arr

\* nothing remains of the argument once its entries are trimmed and the empty ones
\* dropped, or it is absent or malformed
NothingRemains(domains) ==
    \/ domains.kind \notin {"string", "array"}
    \/ \E i \in 1..Len(domains.arr) : domains.arr[i] = NotAString
    \/ \A i \in 1..Len(EntriesOf(domains)) : Trim(EntriesOf(domains)[i]) = <<>>

\* C28: generateBypassList returns the default set when its argument is absent or
\* malformed, or when nothing remains after splitting, trimming and dropping the
\* empty entries.
C28_DefaultWhenEmpty ==
    \A h \in Slots :
        (Returned(h, "generateBypassList") /\ NothingRemains(task[h].data))
            => task[h].resp.success /\ task[h].resp.data = <<DEFAULT_BYPASS_LIST>>

\* C29: for a string and for an array of strings of which something remains,
\* generateBypassList returns the entries trimmed, the empty ones dropped, in the
\* order of the input.
C29_TrimmedInOrder ==
    \A h \in Slots :
        (Returned(h, "generateBypassList") /\ ~NothingRemains(task[h].data))
            => LET entries == EntriesOf(task[h].data) IN
               /\ task[h].resp.success
               /\ task[h].resp.data =
                    <<SelectSeq([i \in 1..Len(entries) |-> Trim(entries[i])],
                                LAMBDA d : d # <<>>)>>

\* C30 as stated: joining any list of non-empty trimmed strings and normalizing the
\* string gives the list back.
C30_RoundTrip ==
    \A h \in Slots :
        (Returned(h, "generateBypassList") /\ task[h].ctx = "opt")
            => task[h].resp.success /\ task[h].resp.data = <<task[h].read>>

\* C30: joining a non-empty list of non-empty trimmed strings none of which contains
\* a comma and normalizing the string gives the list back; the empty list gives the
\* default set.
C30_RoundTripWithoutCommas ==
    \A h \in Slots :
        (Returned(h, "generateBypassList") /\ task[h].ctx = "opt")
            => LET list == task[h].read IN
               /\ task[h].resp.success
               /\ (list # <<>> /\ \A i \in 1..Len(list) : ~Includes(list[i], ","))
                    => task[h].resp.data = <<list>>
               /\ list = <<>> => task[h].resp.data = <<DEFAULT_BYPASS_LIST>>

C30_Witness ==
    \E h \in Slots :
        /\ Returned(h, "generateBypassList") /\ task[h].ctx = "opt"
        /\ Len(task[h].read) = 3
        /\ task[h].resp.data = <<task[h].read>>

\* the file has a top-level key that begins with the prefix
HasKey(data, prefix) ==
    data.tag = "object" /\ \E i \in 1..Len(data.entries) : data.entries[i].key.prefix = prefix

\* C31: format detection follows a fixed precedence: a file with a configs array
\* is not foreign, even with a "+" key; otherwise a file with a "+" key is
\* foreign; otherwise a file with a schemaVersion and a "-" key is foreign; every
\* other file (one with only a schemaVersion, or only "-" keys, too) is not.
C31_DetectionPrecedence ==
    \A h \in Slots : Returned(h, "isOmegaFormat") =>
        LET data == task[h].data
            foreign == IF data.tag = "object" /\ data.configs # <<>> THEN FALSE
                       ELSE IF HasKey(data, "+") THEN TRUE
                       ELSE IF data.tag = "object" /\ data.schemaVersion /\ HasKey(data, "-")
                           THEN TRUE
                       ELSE FALSE
        IN  task[h].resp.data = <<foreign>>

\* a file with a configs array and a "+" key has been classified
C31_Witness ==
    \E h \in Slots :
        /\ Returned(h, "isOmegaFormat")
        /\ task[h].data.configs # <<>>
        /\ HasKey(task[h].data, "+")
        /\ task[h].resp.data = <<FALSE>>

\* the file handed to parseOmegaBackup holds one profile of the given type, under
\* a key "+N" where N is not one of the two meta profile names
LoneProfile(h, type) ==
    /\ Returned(h, "parseOmegaBackup")
    /\ Len(task[h].data.entries) = 1
    /\ task[h].data.entries[1].key.prefix = "+"
    /\ task[h].data.entries[1].key.name \notin
            {<<"ZeroOmega Conditions">>, <<"Proxy SwitchyOmega Conditions">>}
    /\ task[h].data.entries[1].value.tag = "object"
    /\ task[h].data.entries[1].value.profileType = type

\* a Fixed profile whose fallbackProxy has host and port
HasServer(profile) ==
    /\ profile.fallbackProxy # <<>>
    /\ profile.fallbackProxy[1].host # <<>>
    /\ profile.fallbackProxy[1].port # 0

\* the patterns of the members of a profile's bypassList whose conditionType is
\* "BypassCondition" and that have a pattern, in order
Patterns(profile) ==
    IF profile.bypassList = <<>> THEN <<>>
    ELSE LET kept == SelectSeq(profile.bypassList[1],
                               LAMBDA item : /\ item.conditionType = "BypassCondition"
                                             /\ item.pattern # <<>>)
         IN  [i \in 1..Len(kept) |-> kept[i].pattern]

\* C32: a Fixed profile under key "+N" whose fallbackProxy has host and port
\* converts to a configuration with name N, host and port of the fallbackProxy
\* (never the profile's own), the type its scheme maps to (http when it is none
\* of the four), and the patterns of its BypassCondition members, in order, as
\* bypassList.
C32_FixedProfileConverted ==
    \A h \in Slots :
        (LoneProfile(h, "FixedProfile") /\ HasServer(task[h].data.entries[1].value)) =>
            LET profile == task[h].data.entries[1].value
                server == profile.fallbackProxy[1]
            IN  /\ task[h].resp.success
                /\ Len(task[h].resp.data[1]) = 1
                /\ LET config == task[h].resp.data[1][1] IN
                   /\ config.name = task[h].data.entries[1].key.name
                   /\ config.host = server.host
                   /\ config.port = server.port
                   /\ config.type = IF server.scheme \in ServerTypes
                                        THEN server.scheme ELSE "http"
                   /\ Patterns(profile) # <<>> => config.bypassList = Patterns(profile)

\* a key of the file that the converter is to turn into a configuration: a "+"
\* key, not a meta profile, whose value is a Fixed profile with a server, a PAC
\* profile with a script, a Direct profile or a System profile
Converts(e) ==
    /\ e.key.prefix = "+"
    /\ e.key.name \notin {<<"ZeroOmega Conditions">>, <<"Proxy SwitchyOmega Conditions">>}
    /\ e.value.tag = "object"
    /\ \/ e.value.profileType = "FixedProfile" /\ HasServer(e.value)
       \/ e.value.profileType = "PacProfile" /\ e.value.pacScript # <<>>
       \/ e.value.profileType \in {"DirectProfile", "SystemProfile"}

\* C33: the converter returns exactly one configuration, in key order, for each
\* "+" profile that is not a meta profile and that is a Fixed profile with
\* fallbackProxy host and port, a PAC profile with a script, a Direct or a System
\* profile, and none for any other; each skipped profile makes the converted
\* count one less than the profile count.
C33_OnePerConvertibleProfile ==
    \A h \in Slots : Returned(h, "parseOmegaBackup") =>
        LET expected == SelectSeq(task[h].data.entries, Converts) IN
        /\ task[h].resp.success
        /\ Len(task[h].resp.data[1]) = Len(expected)
        /\ \A i \in 1..Len(expected) :
            LET name == expected[i].key.name IN
            (name # <<>> /\ name = sanitizeInput(name, MAX_PROXY_NAME_LENGTH)) =>
                task[h].resp.data[1][i].name = name

\* C34: when a Fixed profile has no bypassList, or none of its bypassList members
\* is a BypassCondition with a pattern, the bypassList of the configuration it
\* converts to is exactly the default bypass set.
C34_DefaultBypassOfProfile ==
    \A h \in Slots :
        (/\ LoneProfile(h, "FixedProfile")
         /\ HasServer(task[h].data.entries[1].value)
         /\ Patterns(task[h].data.entries[1].value) = <<>>) =>
            /\ task[h].resp.success
            /\ Len(task[h].resp.data[1]) = 1
            /\ task[h].resp.data[1][1].bypassList = DEFAULT_BYPASS_LIST

\* C35: a configuration's own lastUsed is null from its creation until it first
\* becomes the active one, and at every APPLY_PROXY for its id that reports
\* success the stored configuration's lastUsed is not null.
C35_LastUsedSetByApply ==
    [][\A h \in Slots :
          (/\ task[h].pc # "done" /\ task'[h].pc = "done"
           /\ task'[h].cmd = "APPLY_PROXY" /\ task'[h].resp.success
           /\ task'[h].id \in Ids(storage'.proxyConfigs))
              => Find(storage'.proxyConfigs, task'[h].id).lastUsed # NULL]_vars

\* the stored current-id says what the platform holds: null when the platform
\* holds no directive of the extension, else the id of a stored configuration
\* whose directive it holds
Agrees ==
    IF platform.mode \in {"system", "cleared"} THEN storage.currentProxyId = NULL
    ELSE /\ storage.currentProxyId \in Ids(storage.proxyConfigs)
         /\ platform = formatProxyRules(Find(storage.proxyConfigs, storage.currentProxyId))

\* C36: for any interleaving of APPLY_PROXY and DISABLE_PROXY commands in which
\* every platform and storage call succeeds, once all of them have completed the
\* stored current-id agrees with the platform: it is the id whose platform set
\* was accepted last, or null if a platform clear was accepted after every set.
C36_ApplyDisableAgree ==
    (/\ \A h \in Slots : Settled(h)
     /\ hist.started \subseteq {"APPLY_PROXY", "DISABLE_PROXY"}
     /\ hist.faults = 0 /\ hist.proxyFaults = 0) => Agrees

\* C37: whenever no command is in flight, the platform holds a directive set by
\* the extension only if the current-id is not null and that directive is
\* formatProxyRules of the stored configuration with that id; so after a
\* DELETE_CONFIG or a successful UPDATE_CONFIG of the active configuration the
\* platform is not left with the deleted or the former configuration.  (Stated
\* for the behaviours in which no call was rejected and importData was never
\* asked to replace the collection.)
C37_PlatformFollowsCurrentId ==
    (/\ \A h \in Slots : Settled(h)
     /\ hist.faults = 0 /\ hist.proxyFaults = 0
     /\ "IMPORT_REPLACE" \notin hist.started) =>
        (platform.mode \notin {"system", "cleared"} =>
            /\ storage.currentProxyId \in Ids(storage.proxyConfigs)
            /\ platform = formatProxyRules(Find(storage.proxyConfigs, storage.currentProxyId)))

\* C38: whenever no command is in flight, the badge shows ON only if the
\* current-id is not null and names a configuration of the stored collection.
\* (Stated for the behaviours in which no call was rejected and importData was
\* never asked to replace the collection.)
C38_ActiveBadgeHasCurrent ==
    (/\ \A h \in Slots : Settled(h)
     /\ hist.faults = 0 /\ hist.proxyFaults = 0
     /\ "IMPORT_REPLACE" \notin hist.started) =>
        (badge.text = BADGE_TEXT.ACTIVE => storage.currentProxyId \in Ids(storage.proxyConfigs))

\* C39: within one execution context, whenever no Store operation is in flight,
\* the Store's cached collection, if marked valid, equals the collection in
\* durable storage, for any interleaving of list, create, update, delete and
\* import calls and also after a durable write that was rejected.  (Stated for
\* the behaviours in which only one context has called the Store.)
C39_ValidCacheIsStorage ==
    \A x \in Contexts :
        (/\ \A h \in Slots : Settled(h)
         /\ \A h \in Slots : InFlight(h) => task[h].ctx = x
         /\ hist.started \subseteq
                IF x = "sw" THEN {"GET_CONFIGS", "SAVE_CONFIG", "UPDATE_CONFIG", "DELETE_CONFIG"}
                            ELSE {"IMPORT", "IMPORT_REPLACE"}
         /\ CacheHit(x)) => heap[cache[x].configsCache] = storage.proxyConfigs

\* C40: every configuration of the stored collection is one validateProxyConfig
\* accepts, after any sequence of SAVE_CONFIG, UPDATE_CONFIG, DELETE_CONFIG and
\* importData operations.
C40_StoredAreValid ==
    \A i \in 1..Len(storage.proxyConfigs) : validateProxyConfig(storage.proxyConfigs[i]).valid
====
